---------------------------- MODULE Spec2Model ----------------------------
(***************************************************************************)
(* A model of the framego toolkit: the model registry and its validation   *)
(* (pkg/models), the SQL generation and CRUD engine (pkg/orm) together     *)
(* with the relational database it drives through database/sql, and the   *)
(* serializer (pkg/serializer).                                            *)
(*                                                                         *)
(* The engine part (specification Spec) keeps the ORM's registry, the      *)
(* database's tables and rows, and a record of the last engine call with   *)
(* the statements it sent.  Go's randomised map iteration is a choice: of   *)
(* the column order of a statement and of the primary-key column the       *)
(* lookup loops of Get, Update and Delete stop at.                         *)
(*                                                                         *)
(* The serializer part (specification SerSpec) keeps one serializer built   *)
(* by New from a model and reconfigured by AddField, and a record of the    *)
(* last Serialize, Deserialize or Validate call.  In the engine part        *)
(* column values are opaque integers, as database/sql passes them through;  *)
(* in the serializer part a value carries its Go type.                      *)
(***************************************************************************)
EXTENDS Integers, Sequences, FiniteSets, TLC

(***************************************************************************)
(* Bounds of the model.                                                    *)
(***************************************************************************)
MaxRows == 2     \* rows a table holds at most
MaxKeys == 2     \* keys a payload holds at most
MaxId == 3       \* largest identifier the database generates
MaxAddField == 1 \* AddField calls made on a serializer at most

Null == 0        \* SQL NULL / Go nil

\* The column values and the identifiers callers pass.
Values == {1, 2}
Ids == {1, 2}

Drivers == {"mysql", "postgres", "sqlite3"}

VARIABLES
    driver,      \* ORM.driver
    models,      \* ORM.models: table name -> registered model
    tables,      \* the database: table name -> columns the table was created with
    rows,        \* the database: table name -> set of rows
    autoInc,     \* the database: table name -> next AUTO_INCREMENT value (mysql)
    last,        \* the engine call whose result the caller has not read yet
    gone,        \* table name -> the id last deleted without error and not
                 \* created since (0 when there is none)
    serModel,    \* Serializer.Model: the model the serializer was built from
    ser,         \* Serializer.Fields: field name -> serializer field
    added,       \* number of AddField calls made on the serializer
    slast,       \* the serializer call whose result the caller has not read yet
    vlast,       \* the validator call whose result the caller has not read yet
    hModels,     \* graphql Handler.Models: table name -> model
    hSchema,     \* graphql Handler.Schema: the types and the fields of its
                 \* query type and mutation type
    hGQL,        \* graphql Handler.GQLSchema: the schema queries are executed on
    glast,       \* the handler call whose result the caller has not read yet
    heap,        \* the backing arrays of the middleware slices
    rRoutes,     \* Router.Routes
    rMiddleware, \* Router.Middleware
    group,       \* the Group made with Router.Group (NoGroup before it is made)
    rlast        \* the router call whose result the caller has not read yet

gqlVars == <<hModels, hSchema, hGQL, glast>>
rtVars == <<heap, rRoutes, rMiddleware, group, rlast>>
ormVars == <<driver, models, tables, rows, autoInc, last, gone, hModels, hSchema, hGQL, glast>>
serVars == <<serModel, ser, added, slast, vlast>>
vars == <<driver, models, tables, rows, autoInc, last, gone, serModel, ser, added, slast,
          vlast, hModels, hSchema, hGQL, glast, heap, rRoutes, rMiddleware, group, rlast>>

(***************************************************************************)
(* pkg/models: Field, Model, Model.Validate                                *)
(***************************************************************************)
\* Field: Default is Null when no default is declared, MaxLength is 0 when
\* no maximum length is declared, ForeignKey is "" when there is none and
\* else the table the field references.
Field(type, pk, ai, notNull, default, maxLength) ==
    [Type |-> type, PrimaryKey |-> pk, AutoIncrement |-> ai, NotNull |-> notNull,
     Default |-> default, MaxLength |-> maxLength, ForeignKey |-> ""]

\* The option WithForeignKey(model, ...) applied to a field.
WithForeignKey(field, model) == [field EXCEPT !.ForeignKey = model]

NewModel(tableName, fields) == [TableName |-> tableName, Fields |-> fields]

TableNames == {"users"}

\* The models callers declare for the table: a model without fields, models
\* without a primary key, the README's model with one auto-increment integer
\* key, and a model with a composite primary key.
ModelPool ==
    { NewModel("users", [f \in {} |-> Field("int", FALSE, FALSE, FALSE, Null, 0)]),
      NewModel("users", [f \in {"name"} |->
                            Field("string", FALSE, FALSE, TRUE, Null, 0)]),
      NewModel("users", [f \in {"id", "name"} |->
                            Field("int", FALSE, FALSE, FALSE, Null, 0)]),
      NewModel("users", [f \in {"id", "name"} |->
                            IF f = "id" THEN Field("int", TRUE, TRUE, FALSE, Null, 0)
                                        ELSE Field("string", FALSE, FALSE, TRUE, Null, 0)]),
      NewModel("users", [f \in {"id", "org", "name"} |->
                            IF f = "name" THEN Field("string", FALSE, FALSE, FALSE, 1, 0)
                                          ELSE Field("int", TRUE, FALSE, FALSE, Null, 0)]) }

PrimaryKeys(fields) == {f \in DOMAIN fields : fields[f].PrimaryKey}

\* Variant of Validate without the primary-key loop.
ValidateNoPkCheck(m) == DOMAIN m.Fields # {}

\* Model.Validate: TRUE when it returns nil.
Validate(m) ==
    /\ DOMAIN m.Fields # {}
    /\ \E f \in DOMAIN m.Fields : m.Fields[f].PrimaryKey

(***************************************************************************)
(* Helpers: Go map iteration order, placeholders, statements.              *)
(***************************************************************************)
\* Variant of Orders in which a range loop visits a map in one fixed order.
OrdersFixed(S) ==
    {CHOOSE o \in [1..Cardinality(S) -> S] :
        \A i, j \in 1..Cardinality(S) : o[i] = o[j] => i = j}

\* The orders in which a range loop can visit the keys S of a Go map.
Orders(S) ==
    {o \in [1..Cardinality(S) -> S] : \A i, j \in 1..Cardinality(S) : o[i] = o[j] => i = j}

Max(S) == IF S = {} THEN 0 ELSE CHOOSE x \in S : \A y \in S : y <= x

\* Variant of Placeholder that writes "?" on every dialect.
PlaceholderQuestion(drv, i) == 0

\* A placeholder: 0 stands for "?", n > 0 for "$n".
Placeholder(drv, i) == IF drv = "postgres" THEN i ELSE 0

\* A statement handed to database/sql: its kind, the table, the listed
\* columns with their placeholders, the WHERE column with its placeholder
\* ("" when the statement has no WHERE clause) and the bound arguments.
Stmt(kind, t, cols, ph, where, wherePh, args) ==
    [kind |-> kind, table |-> t, cols |-> cols, ph |-> ph,
     where |-> where, wherePh |-> wherePh, args |-> args]

\* The argument the k-th placeholder of a statement binds: "?" binds by
\* position, "$n" binds the n-th argument.
Bound(ph, k, args) ==
    LET n == IF ph = 0 THEN k ELSE ph
    IN  IF n \in 1..Len(args) THEN args[n] ELSE Null

(***************************************************************************)
(* The database behind database/sql, as the three drivers behave.  A table *)
(* is a set of rows; on sqlite3 a row of a table without an INTEGER        *)
(* primary key also carries its hidden rowid.                              *)
(***************************************************************************)
\* The column the database fills in when an INSERT leaves it out: the
\* AUTO_INCREMENT column on mysql (emitted by createTable for mysql only),
\* the single INTEGER primary key on sqlite3 (an alias of the rowid), and
\* none on postgres (the DDL declares no sequence).
GeneratedCols(schema, drv) ==
    IF drv = "mysql" THEN {c \in DOMAIN schema : schema[c].AutoIncrement}
    ELSE IF drv = "sqlite3"
         THEN IF Cardinality(PrimaryKeys(schema)) = 1
              THEN {c \in PrimaryKeys(schema) : schema[c].Type = "int"}
              ELSE {}
         ELSE {}

\* The hidden column of a row: the rowid of a sqlite3 table that has no
\* INTEGER primary key to stand for it.
HiddenCols(schema, drv) ==
    IF drv = "sqlite3" /\ GeneratedCols(schema, drv) = {} THEN {"rowid"} ELSE {}

\* The value the database generates for column c: the table's counter on
\* mysql, one more than the largest value in use on sqlite3.
GeneratedValue(t, drv, c) ==
    IF drv = "mysql" THEN autoInc[t] ELSE Max({r[c] : r \in rows[t]}) + 1

\* The columns that reject NULL: NOT NULL columns and primary-key columns.
NotNullCols(schema) == {c \in DOMAIN schema : schema[c].NotNull \/ schema[c].PrimaryKey}

\* Two rows collide when they agree on every primary-key column.
SameKey(schema, r1, r2) == \A c \in PrimaryKeys(schema) : r1[c] = r2[c]

\* The values an INSERT or UPDATE statement assigns, by column.
Assigned(stmt) ==
    [c \in {stmt.cols[k] : k \in 1..Len(stmt.cols)} |->
        LET k == CHOOSE k \in 1..Len(stmt.cols) : stmt.cols[k] = c
        IN  Bound(stmt.ph[k], k, stmt.args)]

\* The row an INSERT stores.
InsertedRow(schema, drv, t, stmt) ==
    LET a == Assigned(stmt)
    IN  [c \in DOMAIN schema \cup HiddenCols(schema, drv) |->
            IF c \in DOMAIN a THEN a[c]
            ELSE IF c \in GeneratedCols(schema, drv) \cup HiddenCols(schema, drv)
                 THEN GeneratedValue(t, drv, c)
            ELSE schema[c].Default]

\* What SELECT * shows of a stored row.
Visible(schema, row) == [c \in DOMAIN schema |-> row[c]]

\* Whether the database accepts an INSERT: the table exists, the column list
\* is not empty except on mysql (INSERT INTO t () VALUES () is a syntax error
\* elsewhere), every listed column is a column of the table, no NOT NULL
\* column is left NULL and the key is not taken.
InsertAccepted(drv, t, stmt) ==
    /\ t \in DOMAIN tables
    /\ (Len(stmt.cols) > 0 \/ drv = "mysql")
    /\ \A k \in 1..Len(stmt.cols) : stmt.cols[k] \in DOMAIN tables[t]
    /\ LET row == InsertedRow(tables[t], drv, t, stmt)
       IN  /\ \A c \in NotNullCols(tables[t]) : row[c] # Null
           /\ \A r \in rows[t] : ~SameKey(tables[t], r, row)

\* sql.Result.LastInsertId: [err, id].  lib/pq does not support it; mysql
\* reports the value stored in the AUTO_INCREMENT column (0 for a table
\* without one); sqlite3 reports the rowid.
LastInsertId(schema, drv, row) ==
    LET idCols == GeneratedCols(schema, drv) \cup HiddenCols(schema, drv)
    IN  IF drv = "postgres" THEN [err |-> TRUE, id |-> 0]
        ELSE IF idCols = {} THEN [err |-> FALSE, id |-> 0]
        ELSE [err |-> FALSE, id |-> row[CHOOSE c \in idCols : TRUE]]

\* The rows a WHERE column = id clause selects.
Matching(t, where, id) == {r \in rows[t] : r[where] = id}

\* A row after an UPDATE statement: assigned when the WHERE clause selects it.
UpdatedRow(stmt, r) ==
    LET a  == Assigned(stmt)
        id == Bound(stmt.wherePh, Len(stmt.cols) + 1, stmt.args)
    IN  IF r[stmt.where] = id
        THEN [c \in DOMAIN r |-> IF c \in DOMAIN a THEN a[c] ELSE r[c]]
        ELSE r

\* The rows of a table after an UPDATE statement.
UpdatedRows(t, stmt) == {UpdatedRow(stmt, r) : r \in rows[t]}

\* Whether the database accepts an UPDATE: the table exists, the SET clause
\* is not empty (UPDATE t SET WHERE ... is a syntax error), its columns are
\* columns of the table, and the rows still have distinct keys and no NULL
\* in a NOT NULL column.
UpdateAccepted(t, stmt) ==
    /\ t \in DOMAIN tables
    /\ Len(stmt.cols) > 0
    /\ \A k \in 1..Len(stmt.cols) : stmt.cols[k] \in DOMAIN tables[t]
    /\ stmt.where \in DOMAIN tables[t]
    /\ \A r \in UpdatedRows(t, stmt) : \A c \in NotNullCols(tables[t]) : r[c] # Null
    /\ \A r1, r2 \in rows[t] :
          r1 # r2 => ~SameKey(tables[t], UpdatedRow(stmt, r1), UpdatedRow(stmt, r2))

\* The rows of a table after a DELETE statement.
DeletedRows(t, stmt) ==
    rows[t] \ Matching(t, stmt.where, Bound(stmt.wherePh, 1, stmt.args))

(***************************************************************************)
(* pkg/serializer: values, validators, fields.                             *)
(***************************************************************************)
\* A value as the serializer sees it: its Go type and what the validators
\* read of it (a string's length and whether it contains "@", a number).
Str(len, at) == [type |-> "string", len |-> len, at |-> at, num |-> 0]
Num(n) == [type |-> "int", len |-> 0, at |-> FALSE, num |-> n]
Nil == [type |-> "nil", len |-> 0, at |-> FALSE, num |-> 0]

\* Validators, by the function that creates them.
MaxLengthValidator(n) == [kind |-> "MaxLength", n |-> n]
MinLengthValidator(n) == [kind |-> "MinLength", n |-> n]
RegexValidator(pattern) == [kind |-> "Regex", n |-> 0]   \* the pattern is not kept
EmailValidator == [kind |-> "Email", n |-> 0]

\* Variant of ApplyValidator whose regex validator has no type assertion.
ApplyValidatorRegexAny(v, value) ==
    IF v.kind = "Regex" THEN ""
    ELSE IF value.type # "string" THEN "value is not a string"
    ELSE IF v.kind = "MaxLength" /\ value.len > v.n THEN "string length exceeds maximum"
    ELSE IF v.kind = "MinLength" /\ value.len < v.n THEN "string length is less than minimum"
    ELSE IF v.kind = "Email" /\ ~value.at THEN "invalid email address"
    ELSE ""

\* A validator applied to a value: "" when it returns nil, else its error.
ApplyValidator(v, value) ==
    IF value.type # "string" THEN "value is not a string"
    ELSE IF v.kind = "MaxLength" /\ value.len > v.n THEN "string length exceeds maximum"
    ELSE IF v.kind = "MinLength" /\ value.len < v.n THEN "string length is less than minimum"
    ELSE IF v.kind = "Email" /\ ~value.at THEN "invalid email address"
    ELSE ""

\* The values validators are called with directly.  A string has a number
\* of characters and a number of bytes (len); a number is num hundredths,
\* or 2^53 + num when big, or not-a-number; its type is its Go type.
Text(chars, bytes) ==
    [type |-> "string", len |-> bytes, at |-> FALSE, num |-> 0, chars |-> chars,
     nan |-> FALSE, big |-> FALSE]
Numeric(type, big, n) ==
    [type |-> type, len |-> 0, at |-> FALSE, num |-> n, chars |-> 0,
     nan |-> FALSE, big |-> big]
NaN ==
    [type |-> "float64", len |-> 0, at |-> FALSE, num |-> 0, chars |-> 0,
     nan |-> TRUE, big |-> FALSE]
Bool ==
    [type |-> "bool", len |-> 0, at |-> FALSE, num |-> 0, chars |-> 0,
     nan |-> FALSE, big |-> FALSE]

\* A float64: num hundredths, or 2^53 + num when big, or not-a-number.
Float(nan, big, num) == [nan |-> nan, big |-> big, num |-> num]

\* The Go types RangeValidator's type switch converts.
NumericTypes == {"int", "int8", "int16", "int32", "int64", "uint", "uint8", "uint16",
                 "uint32", "uint64", "float32", "float64"}

\* float64(v) of an integer 2^53 + off: between 2^53 and 2^54 a float64 holds
\* the even integers only, and a tie goes to the even mantissa.
RoundToEven(off) ==
    IF off % 4 = 1 THEN off - 1 ELSE IF off % 4 = 3 THEN off + 1 ELSE off

\* RangeValidator: the conversion float64(v) of a value of a numeric type.
ToFloat64(value) ==
    IF value.nan THEN Float(TRUE, FALSE, 0)
    ELSE IF value.big /\ value.type \notin {"float32", "float64"}
    THEN Float(FALSE, TRUE, RoundToEven(value.num))
    ELSE Float(FALSE, value.big, value.num)

\* a < b on float64: false when either is not-a-number.
FloatLess(a, b) ==
    /\ ~a.nan
    /\ ~b.nan
    /\ IF a.big = b.big THEN a.num < b.num ELSE b.big

\* The validator RangeValidator(min, max) applied to a value: "" when it
\* returns nil, else its error.
ApplyRange(min, max, value) ==
    IF value.type \notin NumericTypes THEN "value is not a number"
    ELSE LET num == ToFloat64(value)
         IN  IF FloatLess(num, min) \/ FloatLess(max, num)
             THEN "number must be between min and max"
             ELSE ""

\* The record of a validator call: the validator (its kind and arguments),
\* the value and the error returned ("" for nil).
VCall(kind, n, pattern, min, max, value, err) ==
    [kind |-> kind, n |-> n, pattern |-> pattern, min |-> min, max |-> max,
     value |-> value, err |-> err]

VIdle == VCall("none", 0, "", Float(FALSE, FALSE, 0), Float(FALSE, FALSE, 0), Bool, "")

\* serializer.Field
SerField(name, type, required, readOnly, writeOnly, default, validators, source) ==
    [Name |-> name, Type |-> type, Required |-> required, ReadOnly |-> readOnly,
     WriteOnly |-> writeOnly, Default |-> default, Validators |-> validators,
     SourceField |-> source]

\* The models serializers are built from: the users model of the examples
\* (a required e-mail address of bounded length, a role with a default) and
\* a model with an integer key.
SerModelPool ==
    { NewModel("users", [f \in {"email", "role"} |->
                            IF f = "email"
                            THEN Field("string", FALSE, FALSE, TRUE, Nil, 3)
                            ELSE Field("string", FALSE, FALSE, TRUE, Str(1, FALSE), 0)]),
      NewModel("users", [f \in {"id", "email"} |->
                            IF f = "id"
                            THEN Field("int", TRUE, TRUE, FALSE, Nil, 0)
                            ELSE Field("string", FALSE, FALSE, TRUE, Nil, 0)]) }

\* New: the required flag of a field generated from a model field.
NewRequired(modelField) == modelField.NotNull /\ modelField.Default = Nil

\* New: the fields generated from the model's fields.
New(model) ==
    [name \in DOMAIN model.Fields |->
        LET modelField == model.Fields[name]
        IN  SerField(name, modelField.Type, NewRequired(modelField), FALSE, FALSE, Nil,
                     IF modelField.MaxLength > 0 /\ modelField.Type = "string"
                     THEN <<MaxLengthValidator(modelField.MaxLength)>> ELSE << >>,
                     name)]

\* The options AddField is called with.  Each sets another attribute of the
\* field, so a set of them stands for the option list in any order.
Options == {"WithRequired", "WithReadOnly", "WithWriteOnly", "WithDefault",
            "WithValidator", "WithSourceField"}

OptionDefault == Str(2, TRUE)          \* the value passed to WithDefault
OptionValidator == EmailValidator      \* the validator passed to WithValidator
\* The validators of a call with two WithValidator options, in call order.
OptionValidators == <<MaxLengthValidator(3), OptionValidator>>
OptionSource == "role"                 \* the name passed to WithSourceField

\* Serializer.AddField: the field it stores under name, built from the zero
\* field and the options alone.
AddedField(name, type, opts) ==
    SerField(name, type,
             "WithRequired" \in opts,
             "WithReadOnly" \in opts,
             "WithWriteOnly" \in opts,
             IF "WithDefault" \in opts THEN OptionDefault ELSE Nil,
             IF "WithValidator" \in opts THEN OptionValidators ELSE << >>,
             IF "WithSourceField" \in opts THEN OptionSource ELSE name)

\* A Go map with one more entry.
Put(m, k, v) == [x \in DOMAIN m \cup {k} |-> IF x = k THEN v ELSE m[x]]

NoMap == [k \in {} |-> Nil]

\* The entries <<key, value>> of a sequence written into a map one by one.
RECURSIVE PutAll(_, _)
PutAll(m, entries) ==
    IF entries = << >> THEN m
    ELSE PutAll(Put(m, Head(entries)[1], Head(entries)[2]), Tail(entries))

\* Variant of ValidateField that runs every validator and returns the error
\* of the last one that fails.
ValidateFieldLastError(fields, name, value) ==
    IF name \notin DOMAIN fields THEN "field not found"
    ELSE LET field == fields[name]
             bad   == {i \in 1..Len(field.Validators) :
                          ApplyValidator(field.Validators[i], value) # ""}
             lastv == CHOOSE i \in bad : \A j \in bad : i >= j
         IN  IF /\ value.type # field.Type
                /\ value # Nil
                /\ (field.Type # "time" \/ value.type # "string")
             THEN "field has invalid type"
             ELSE IF bad = {} THEN ""
             ELSE ApplyValidator(field.Validators[lastv], value)

\* Serializer.validateField: "" when it returns nil, else its error.
ValidateField(fields, name, value) ==
    IF name \notin DOMAIN fields THEN "field not found"
    ELSE LET field == fields[name]
             bad   == {i \in 1..Len(field.Validators) :
                          ApplyValidator(field.Validators[i], value) # ""}
             first == CHOOSE i \in bad : \A j \in bad : i <= j
         IN  IF /\ value.type # field.Type
                /\ value # Nil
                /\ (field.Type # "time" \/ value.type # "string")
             THEN "field has invalid type"
             ELSE IF bad = {} THEN ""
             ELSE ApplyValidator(field.Validators[first], value)

(***************************************************************************)
(* pkg/orm: the engine.                                                    *)
(***************************************************************************)
NoModel == NewModel("", [f \in {} |-> Field("int", FALSE, FALSE, FALSE, Null, 0)])
NoData == [c \in {} |-> Null]

\* The record of an engine call: what was asked, the primary-key column the
\* lookup loop stopped at, the statements sent to the database in order,
\* whether an error was returned, the identifier returned (Create) and the
\* mapping returned (Get; for Create the row the database stored).
Call(op, t, id, data, model, pk, stmts, err, ret, row) ==
    [op |-> op, table |-> t, id |-> id, data |-> data, model |-> model, pk |-> pk,
     stmts |-> stmts, err |-> err, ret |-> ret, row |-> row]

\* The payloads callers pass for a table: at most MaxKeys keys among the
\* columns the pool declares for the table and one undeclared name.
PayloadKeys(t) ==
    UNION {DOMAIN m.Fields : m \in {m \in ModelPool : m.TableName = t}} \cup {"bogus"}

Payloads(t) ==
    UNION {[S -> Values] : S \in {S \in SUBSET PayloadKeys(t) : Cardinality(S) <= MaxKeys}}

\* The record of a serializer call: the input, the error returned ("" for
\* nil) with the field it names, and the mapping returned.
SerCall(op, input, err, field, out) ==
    [op |-> op, input |-> input, err |-> err, field |-> field, out |-> out]

SerIdle == SerCall("none", NoMap, "", "", NoMap)

\* The record of a graphql handler call: the model registered or the
\* operation kind and field queried, whether an error was returned, and
\* the data returned.
GCall(op, table, kind, field, err, data) ==
    [op |-> op, table |-> table, kind |-> kind, field |-> field, err |-> err,
     data |-> data]

GIdle == GCall("none", "", "", "", FALSE, "")

\* Handler.Schema as graphql.New builds it: no types, no fields.
EmptySchema == [types |-> [n \in {} |-> {}], query |-> {}, mutation |-> {}]

\* No graphql handler is in use.
GqlUnused ==
    /\ hModels = [t \in {} |-> NoModel]
    /\ hSchema = EmptySchema
    /\ hGQL = [valid |-> FALSE, query |-> {}, mutation |-> {}]
    /\ glast = GIdle

(***************************************************************************)
(* package router: strings, patterns, the compiled expressions.            *)
(***************************************************************************)
\* A string is the sequence of its characters.
\* strings.Split(s, "/").
RECURSIVE Split(_)
Split(s) ==
    IF \A k \in 1..Len(s) : s[k] # "/"
    THEN <<s>>
    ELSE LET k == CHOOSE k \in 1..Len(s) : s[k] = "/" /\ \A j \in 1..(k - 1) : s[j] # "/"
         IN <<SubSeq(s, 1, k - 1)>> \o Split(SubSeq(s, k + 1, Len(s)))

\* strings.Join(parts, "/").
RECURSIVE Join(_)
Join(parts) ==
    IF Len(parts) = 0 THEN << >>
    ELSE IF Len(parts) = 1 THEN parts[1]
    ELSE parts[1] \o <<"/">> \o Join(Tail(parts))

\* strings.HasPrefix(part, ":").
HasPrefix(part) == Len(part) >= 1 /\ part[1] = ":"

\* strings.HasSuffix(s, "/").
HasSuffix(s) == Len(s) >= 1 /\ s[Len(s)] = "/"

\* extractPathParams: the names of the parts that start with ":".
extractPathParams(pattern) ==
    LET sel == SelectSeq(Split(pattern), HasPrefix)
    IN [k \in 1..Len(sel) |-> Tail(sel[k])]

\* The text "([^/]+)" of an expression, kept as one token.
CaptureGroup == "([^/]+)"

\* patternToRegex: every part that starts with ":" becomes "([^/]+)", the
\* other parts are copied as they are, and the whole is put between "^" and "$".
patternToRegex(pattern) ==
    LET parts == Split(pattern)
    IN <<"^">> \o Join([k \in 1..Len(parts) |->
                          IF HasPrefix(parts[k]) THEN <<CaptureGroup>> ELSE parts[k]])
              \o <<"$">>

\* The length of the longest prefix of s without "/".
RECURSIVE Run(_)
Run(s) == IF s = << >> \/ Head(s) = "/" THEN 0 ELSE 1 + Run(Tail(s))

\* The regexp package matching the expression re (after its "^") against the
\* text s: "$" matches at the end of the text, "." matches any character,
\* "([^/]+)" captures the longest run of characters other than "/" that lets
\* the rest match, and any other character matches itself.
RECURSIVE MatchHere(_, _), MatchGroup(_, _, _)
MatchHere(re, s) ==
    IF re = << >> THEN [ok |-> TRUE, groups |-> << >>]
    ELSE IF Head(re) = "$" THEN [ok |-> s = << >> /\ Len(re) = 1, groups |-> << >>]
    ELSE IF Head(re) = CaptureGroup THEN MatchGroup(Tail(re), s, Run(s))
    ELSE IF s = << >> THEN [ok |-> FALSE, groups |-> << >>]
    ELSE IF Head(re) = "." \/ Head(re) = Head(s) THEN MatchHere(Tail(re), Tail(s))
    ELSE [ok |-> FALSE, groups |-> << >>]

MatchGroup(rest, s, k) ==
    IF k = 0 THEN [ok |-> FALSE, groups |-> << >>]
    ELSE LET m == MatchHere(rest, SubSeq(s, k + 1, Len(s)))
         IN IF m.ok THEN [ok |-> TRUE, groups |-> <<SubSeq(s, 1, k)>> \o m.groups]
                    ELSE MatchGroup(rest, s, k - 1)

\* Regexp.FindStringSubmatch: the matched text followed by the captured
\* groups, or the empty sequence when the expression does not match.
FindStringSubmatch(re, s) ==
    LET m == MatchHere(Tail(re), s)
    IN IF m.ok THEN <<s>> \o m.groups ELSE << >>

(***************************************************************************)
(* Go slices of middleware: a slice is a backing array, a length and a     *)
(* capacity; append writes in place when the capacity allows it.           *)
(***************************************************************************)
NoMiddleware == ""

\* The nil slice.
NilSlice == [arr |-> 0, len |-> 0, cap |-> 0]

\* The elements of a slice.
Elements(h, s) == IF s.len = 0 THEN << >> ELSE SubSeq(h[s.arr], 1, s.len)

\* The capacities the allocator hands out for arrays of function values
\* (size classes of 8, 16, 24, 32, 48, 64 bytes).
SizeClasses == {1, 2, 3, 4, 6, 8}

RoundUpSize(n) == CHOOSE c \in SizeClasses : c >= n /\ \A d \in SizeClasses : d >= n => c <= d

\* The capacity append gives the new array when the old one is too small:
\* the needed length when it exceeds twice the old capacity, else twice the
\* old capacity, rounded up to a size class.
GrowCap(cap, needed) ==
    IF needed > 2 * cap THEN RoundUpSize(needed) ELSE RoundUpSize(2 * cap)

\* The arguments of a variadic call: a new array that holds exactly them,
\* the nil slice when there is none.
Variadic(h, xs) ==
    IF xs = << >> THEN [heap |-> h, slice |-> NilSlice]
    ELSE [heap |-> Append(h, xs),
          slice |-> [arr |-> Len(h) + 1, len |-> Len(xs), cap |-> Len(xs)]]

\* append(s, xs...): the heap and the slice it returns.
AppendSlice(h, s, xs) ==
    LET needed == s.len + Len(xs)
    IN IF needed <= s.cap
       THEN [heap |-> IF xs = << >> THEN h
                      ELSE [h EXCEPT ![s.arr] =
                               [k \in 1..s.cap |->
                                  IF k > s.len /\ k <= needed THEN xs[k - s.len] ELSE @[k]]],
             slice |-> [s EXCEPT !.len = needed]]
       ELSE LET cap == GrowCap(s.cap, needed)
            IN [heap |-> Append(h, [k \in 1..cap |->
                                      IF k <= s.len THEN h[s.arr][k]
                                      ELSE IF k <= needed THEN xs[k - s.len]
                                      ELSE NoMiddleware]),
                slice |-> [arr |-> Len(h) + 1, len |-> needed, cap |-> cap]]

(***************************************************************************)
(* package middleware and the handlers: what a chain of middleware around  *)
(* a handler does with a request.                                          *)
(***************************************************************************)
\* What the chain did: the middleware and the handler entered, in order,
\* the status answered (0 when none was written), whether the CORS headers
\* were set, whether a panic leaves the chain, and whether the handler ran.
Done(entered, status, cors, panicked, handled) ==
    [entered |-> entered, status |-> status, cors |-> cors, panicked |-> panicked,
     handled |-> handled]

\* ServeHTTP wraps the handler in the router's middleware and then wraps
\* the result in the route's middleware: the route's middleware are entered
\* first, each list in its own order.
Chain(routerMw, routeMw) == routeMw \o routerMw

\* handler(w, req) for a handler wrapped in the middleware chain[i..]; h is
\* what the handler itself does.
RECURSIVE Exec(_, _, _, _)
Exec(chain, i, req, h) ==
    IF i > Len(chain)
    THEN Done(<<"handler">>, h.status, FALSE, h.panicked, TRUE)
    ELSE LET mw == chain[i]
             next == Exec(chain, i + 1, req, h)
             in(r) == [r EXCEPT !.entered = <<mw>> \o @]
         IN CASE mw = "Logger" -> in(next)
              [] mw = "CORS" ->
                    IF req.Method = "OPTIONS"
                    THEN Done(<<mw>>, 200, TRUE, FALSE, FALSE)
                    ELSE in([next EXCEPT !.cors = TRUE])
              [] mw = "Auth" ->
                    IF ~req.Authorization
                    THEN Done(<<mw>>, 401, FALSE, FALSE, FALSE)
                    ELSE in(next)
              [] mw = "Recovery" ->
                    IF next.panicked
                    THEN in([next EXCEPT !.status = 500, !.panicked = FALSE])
                    ELSE in(next)

(***************************************************************************)
(* package router: Route, Router, Group.                                   *)
(***************************************************************************)
Route(pattern, method, handler, middleware) ==
    [Pattern |-> pattern, Method |-> method, Handler |-> handler,
     Middleware |-> middleware, PathParams |-> extractPathParams(pattern),
     RegexPattern |-> patternToRegex(pattern)]

NoGroup == [made |-> FALSE, Prefix |-> << >>, Middleware |-> NilSlice]

\* A request: Body and Panics matter to the handler only.
Request(method, path, authorization, body, panics) ==
    [Method |-> method, Path |-> path, Authorization |-> authorization,
     Body |-> body, Panics |-> panics]

\* A request without a body.
NoBody == [data |-> NoData, kind |-> ""]

NoRequest == Request("", << >>, FALSE, NoBody, FALSE)

NoParams == [n \in {} |-> << >>]

\* A router call: registrations record the middleware passed (own) and the
\* group's middleware before the call (before); ServeHTTP records the
\* request, the outcome ("handler", "405" or "404"), the index of the route
\* whose handler was wrapped (0 when none), the path parameters, the Allow
\* header, what the chain did and what the controller did.
RCall(op, own, before, req, outcome, route, params, allow, done, steps) ==
    [op |-> op, own |-> own, before |-> before, req |-> req, outcome |-> outcome,
     route |-> route, params |-> params, allow |-> allow, done |-> done,
     steps |-> steps]

NoneDone == Done(<< >>, 0, FALSE, FALSE, FALSE)

RIdle == RCall("none", << >>, << >>, NoRequest, "", 0, NoParams, << >>, NoneDone, << >>)

\* The router as New builds it, no group, no call.
RouterUnused ==
    /\ heap = << >>
    /\ rRoutes = << >>
    /\ rMiddleware = << >>
    /\ group = NoGroup
    /\ rlast = RIdle

\* No call is in progress and no result is waiting to be read.
Idle == Call("none", "", 0, NoData, NoModel, "", << >>, FALSE, 0, NoData)

Init ==
    /\ driver \in Drivers
    /\ models = [t \in {} |-> NoModel]
    /\ tables = [t \in {} |-> NoModel.Fields]
    /\ rows = [t \in TableNames |-> {}]
    /\ autoInc = [t \in TableNames |-> 1]
    /\ last = Idle
    /\ gone = [t \in TableNames |-> 0]
    /\ serModel = NoModel
    /\ ser = [name \in {} |-> SerField("", "", FALSE, FALSE, FALSE, Nil, << >>, "")]
    /\ added = 0
    /\ slast = SerIdle
    /\ vlast = VIdle
    /\ GqlUnused
    /\ RouterUnused

\* The caller reads the result of the call and is ready for the next one.
Return ==
    /\ last # Idle
    /\ last' = Idle
    /\ UNCHANGED <<driver, models, tables, rows, autoInc, gone>>
    /\ UNCHANGED <<serVars, gqlVars, rtVars>>

\* Variant of Registered that keeps the model a table name already has.
RegisteredKeepFirst(reg, m) ==
    [t \in DOMAIN reg \cup {m.TableName} |->
        IF t \in DOMAIN reg THEN reg[t] ELSE m]

\* The registry after o.models[model.GetTableName()] = model.
Registered(reg, m) ==
    [t \in DOMAIN reg \cup {m.TableName} |->
        IF t = m.TableName THEN m ELSE reg[t]]

\* Variant of Rejected that stores the model before it is validated.
RejectedStored(reg, m) == Registered(reg, m)

\* The registry after RegisterModel returned the validation error: the
\* return comes before the assignment.
Rejected(reg, m) == reg

\* ORM.RegisterModel
RegisterModel(m) ==
    /\ last = Idle
    /\ UNCHANGED <<serVars, gqlVars, rtVars>>
    /\ IF Validate(m)
       THEN models' = Registered(models, m)
       ELSE models' = Rejected(models, m)
    /\ last' = Call("RegisterModel", m.TableName, 0, NoData, m, "", << >>,
                    ~Validate(m), 0, NoData)
    /\ UNCHANGED <<driver, tables, rows, autoInc, gone>>

\* Variant of CreatedTables that defines every registered table anew.
CreatedTablesReplaced(tbls, reg) ==
    [t \in DOMAIN tbls \cup DOMAIN reg |->
        IF t \in DOMAIN reg THEN reg[t].Fields ELSE tbls[t]]

\* The tables of the database after createTable ran for every registered
\* model: a table that does not exist yet gets the model's columns.
CreatedTables(tbls, reg) ==
    [t \in DOMAIN tbls \cup DOMAIN reg |->
        IF t \in DOMAIN tbls THEN tbls[t] ELSE reg[t].Fields]

\* The tables the FOREIGN KEY clauses of a model's DDL reference.
ForeignTargets(m) ==
    {m.Fields[f].ForeignKey : f \in {f \in DOMAIN m.Fields : m.Fields[f].ForeignKey # ""}}

\* Whether the database executes the CREATE TABLE IF NOT EXISTS of a model
\* without error: mysql and postgres refuse to create a table whose foreign
\* key references a table that does not exist, sqlite3 does not look.
DDLAccepted(drv, tbls, m) ==
    \/ drv = "sqlite3"
    \/ m.TableName \in DOMAIN tbls
    \/ ForeignTargets(m) \subseteq DOMAIN tbls \cup {m.TableName}

\* The loop of CreateTables over the registry in iteration order o: the
\* tables afterwards, the statements issued in order, and whether a
\* statement failed, which ends the loop.
RECURSIVE CreateAll(_, _, _, _)
CreateAll(drv, tbls, reg, o) ==
    IF o = << >> THEN [tables |-> tbls, stmts |-> << >>, err |-> FALSE]
    ELSE LET m    == reg[Head(o)]
             stmt == Stmt("CREATE", m.TableName, << >>, << >>, "", 0, << >>)
         IN  IF ~DDLAccepted(drv, tbls, m)
             THEN [tables |-> tbls, stmts |-> <<stmt>>, err |-> TRUE]
             ELSE LET rest == CreateAll(drv,
                                        CreatedTables(tbls, [t \in {Head(o)} |-> m]),
                                        reg, Tail(o))
                  IN  [tables |-> rest.tables, stmts |-> <<stmt>> \o rest.stmts,
                       err |-> rest.err]

\* ORM.CreateTables visiting the registry in iteration order o, with
\* ORM.createTable for every model visited.
CreateTablesIn(o) ==
    /\ last = Idle
    /\ UNCHANGED <<serVars, gqlVars, rtVars>>
    /\ LET run == CreateAll(driver, tables, models, o)
       IN  /\ tables' = run.tables
           /\ last' = Call("CreateTables", "", 0, NoData, NoModel, "",
                           run.stmts, run.err, 0, NoData)
    /\ UNCHANGED <<driver, models, rows, autoInc, gone>>

\* ORM.CreateTables: the range over the registry map yields any order.
CreateTables == \E o \in Orders(DOMAIN models) : CreateTablesIn(o)

\* The primary-key column the loop "for name, field := range fields" of Get,
\* Update and Delete can stop at: the first primary-key field the map
\* iteration yields, any of them.
ResolvePrimaryKey(fields) == PrimaryKeys(fields)

\* Variant of CreateKeysDeclared that accepts every payload key.
CreateKeysUnchecked(fields, data) == TRUE

\* The check of Create's loop: every payload key is a declared field.
CreateKeysDeclared(fields, data) == \A c \in DOMAIN data : c \in DOMAIN fields

\* The INSERT statement Create builds, its columns in map-iteration order o.
InsertStmt(drv, t, data, o) ==
    Stmt("INSERT", t, o, [k \in 1..Len(o) |-> Placeholder(drv, k)], "", 0,
         [k \in 1..Len(o) |-> data[o[k]]])

\* ORM.Create
Create(t, data) ==
    /\ last = Idle
    /\ UNCHANGED <<serVars, gqlVars>>
    /\ UNCHANGED <<driver, models, tables>>
    /\ IF t \notin DOMAIN models
       THEN /\ last' = Call("Create", t, 0, data, NoModel, "", << >>, TRUE, 0, NoData)
            /\ UNCHANGED <<rows, autoInc, gone>>
       ELSE IF ~CreateKeysDeclared(models[t].Fields, data)
       THEN /\ last' = Call("Create", t, 0, data, models[t], "", << >>, TRUE, 0, NoData)
            /\ UNCHANGED <<rows, autoInc, gone>>
       ELSE \E o \in Orders(DOMAIN data) :
            LET stmt == InsertStmt(driver, t, data, o)
            IN  IF ~InsertAccepted(driver, t, stmt)
                THEN /\ last' = Call("Create", t, 0, data, models[t], "", <<stmt>>,
                                     TRUE, 0, NoData)
                     /\ UNCHANGED <<rows, autoInc, gone>>
                ELSE LET row == InsertedRow(tables[t], driver, t, stmt)
                         lid == LastInsertId(tables[t], driver, row)
                         gen == GeneratedCols(tables[t], driver)
                                    \cup HiddenCols(tables[t], driver)
                         nxt == Max({autoInc[t]} \cup {row[c] + 1 : c \in gen})
                     IN  /\ Cardinality(rows[t]) < MaxRows
                         /\ \A c \in gen : row[c] <= MaxId
                         /\ rows' = [rows EXCEPT ![t] = @ \cup {row}]
                         /\ autoInc' = [autoInc EXCEPT ![t] =
                                           IF driver = "mysql" THEN nxt ELSE @]
                         /\ gone' = [gone EXCEPT ![t] =
                                IF @ \in {row[c] : c \in PrimaryKeys(tables[t])}
                                            \cup {lid.id}
                                THEN 0 ELSE @]
                         /\ last' = Call("Create", t, 0, data, models[t], "", <<stmt>>,
                                         lid.err, lid.id, Visible(tables[t], row))

\* The two statements of Get: the QueryRow SELECT and the SELECT of getColumns.
SelectStmts(drv, t, pk, id) ==
    << Stmt("SELECT", t, << >>, << >>, pk, Placeholder(drv, 1), <<id>>),
       Stmt("SELECT", t, << >>, << >>, "", 0, << >>) >>

\* ORM.Get with getColumns
Get(t, id) ==
    /\ last = Idle
    /\ UNCHANGED <<serVars, gqlVars, rtVars>>
    /\ UNCHANGED <<driver, models, tables, rows, autoInc, gone>>
    /\ IF t \notin DOMAIN models
       THEN last' = Call("Get", t, id, NoData, NoModel, "", << >>, TRUE, 0, NoData)
       ELSE IF ResolvePrimaryKey(models[t].Fields) = {}
       THEN last' = Call("Get", t, id, NoData, models[t], "", << >>, TRUE, 0, NoData)
       ELSE \E pk \in ResolvePrimaryKey(models[t].Fields) :
            LET stmts == SelectStmts(driver, t, pk, id)
                arg   == Bound(stmts[1].wherePh, 1, stmts[1].args)
            IN  IF t \notin DOMAIN tables
                THEN last' = Call("Get", t, id, NoData, models[t], pk, stmts,
                                  TRUE, 0, NoData)
                ELSE IF pk \notin DOMAIN tables[t] \/ Matching(t, pk, arg) = {}
                THEN last' = Call("Get", t, id, NoData, models[t], pk, stmts,
                                  TRUE, 0, NoData)
                ELSE \E r \in Matching(t, pk, arg) :
                        last' = Call("Get", t, id, NoData, models[t], pk, stmts,
                                     FALSE, 0, Visible(tables[t], r))

\* The check of Update's loop: every payload key is a declared field.
UpdateKeysDeclared(fields, data) == \A c \in DOMAIN data : c \in DOMAIN fields

\* The payload keys Update's loop puts into the SET clause: every key but
\* the resolved primary-key column.
UpdateSetKeys(data, pk) == DOMAIN data \ {pk}

\* The UPDATE statement Update builds, its SET items in map-iteration order o.
UpdateStmt(drv, t, pk, id, data, o) ==
    Stmt("UPDATE", t, o, [k \in 1..Len(o) |-> Placeholder(drv, k)],
         pk, Placeholder(drv, Len(o) + 1),
         [k \in 1..(Len(o) + 1) |-> IF k <= Len(o) THEN data[o[k]] ELSE id])

\* ORM.Update
Update(t, id, data) ==
    /\ last = Idle
    /\ UNCHANGED <<serVars, gqlVars>>
    /\ UNCHANGED <<driver, models, tables, autoInc, gone>>
    /\ IF t \notin DOMAIN models
       THEN /\ last' = Call("Update", t, id, data, NoModel, "", << >>, TRUE, 0, NoData)
            /\ UNCHANGED rows
       ELSE IF ResolvePrimaryKey(models[t].Fields) = {}
       THEN /\ last' = Call("Update", t, id, data, models[t], "", << >>, TRUE, 0, NoData)
            /\ UNCHANGED rows
       ELSE \E pk \in ResolvePrimaryKey(models[t].Fields) :
            IF ~UpdateKeysDeclared(models[t].Fields, data)
            THEN /\ last' = Call("Update", t, id, data, models[t], pk, << >>,
                                 TRUE, 0, NoData)
                 /\ UNCHANGED rows
            ELSE \E o \in Orders(UpdateSetKeys(data, pk)) :
                 LET stmt == UpdateStmt(driver, t, pk, id, data, o)
                 IN  IF UpdateAccepted(t, stmt)
                     THEN /\ rows' = [rows EXCEPT ![t] = UpdatedRows(t, stmt)]
                          /\ last' = Call("Update", t, id, data, models[t], pk,
                                          <<stmt>>, FALSE, 0, NoData)
                     ELSE /\ UNCHANGED rows
                          /\ last' = Call("Update", t, id, data, models[t], pk,
                                          <<stmt>>, TRUE, 0, NoData)

\* The DELETE statement Delete builds.
DeleteStmt(drv, t, pk, id) ==
    Stmt("DELETE", t, << >>, << >>, pk, Placeholder(drv, 1), <<id>>)

\* ORM.Delete
Delete(t, id) ==
    /\ last = Idle
    /\ UNCHANGED <<serVars, gqlVars, rtVars>>
    /\ UNCHANGED <<driver, models, tables, autoInc>>
    /\ IF t \notin DOMAIN models
       THEN /\ last' = Call("Delete", t, id, NoData, NoModel, "", << >>, TRUE, 0, NoData)
            /\ UNCHANGED <<rows, gone>>
       ELSE IF ResolvePrimaryKey(models[t].Fields) = {}
       THEN /\ last' = Call("Delete", t, id, NoData, models[t], "", << >>, TRUE, 0, NoData)
            /\ UNCHANGED <<rows, gone>>
       ELSE \E pk \in ResolvePrimaryKey(models[t].Fields) :
            LET stmt == DeleteStmt(driver, t, pk, id)
            IN  IF t \in DOMAIN tables /\ pk \in DOMAIN tables[t]
                THEN /\ rows' = [rows EXCEPT ![t] = DeletedRows(t, stmt)]
                     /\ gone' = [gone EXCEPT ![t] = id]
                     /\ last' = Call("Delete", t, id, NoData, models[t], pk,
                                     <<stmt>>, FALSE, 0, NoData)
                ELSE /\ UNCHANGED <<rows, gone>>
                     /\ last' = Call("Delete", t, id, NoData, models[t], pk,
                                     <<stmt>>, TRUE, 0, NoData)

\* The custom queries callers pass to Query: every row of a table, the rows
\* with a given id, and a query on a table the database does not have.
QueryInputs ==
    {Stmt("SELECT", t, << >>, << >>, "", 0, << >>) : t \in TableNames \cup {"nowhere"}}
    \cup {Stmt("SELECT", t, << >>, << >>, "id", 0, <<id>>) : t \in TableNames, id \in Ids}

\* The rows db.Query returns for a custom query.
QueryRows(q) ==
    IF q.where = "" THEN rows[q.table]
    ELSE Matching(q.table, q.where, Bound(q.wherePh, 1, q.args))

\* ORM.Query: the statement is passed to the database as it is; the call
\* returns the rows found (their number is recorded) or the database's error.
Query(q) ==
    /\ last = Idle
    /\ UNCHANGED <<serVars, gqlVars, rtVars>>
    /\ UNCHANGED <<driver, models, tables, rows, autoInc, gone>>
    /\ IF q.table \notin DOMAIN tables
          \/ (q.where # "" /\ q.where \notin DOMAIN tables[q.table])
       THEN last' = Call("Query", q.table, 0, NoData, NoModel, "", <<q>>, TRUE, 0, NoData)
       ELSE last' = Call("Query", q.table, 0, NoData, NoModel, "", <<q>>, FALSE,
                         Cardinality(QueryRows(q)), NoData)

Next ==
    \/ \E m \in ModelPool : RegisterModel(m)
    \/ \E q \in QueryInputs : Query(q)
    \/ CreateTables
    \/ \E t \in TableNames : \E data \in Payloads(t) :
          Create(t, data) /\ UNCHANGED rtVars
    \/ \E t \in TableNames : \E id \in Ids : Get(t, id)
    \/ \E t \in TableNames : \E id \in Ids : \E data \in Payloads(t) :
          Update(t, id, data) /\ UNCHANGED rtVars
    \/ \E t \in TableNames : \E id \in Ids : Delete(t, id)
    \/ Return

Spec == Init /\ [][Next]_vars

(***************************************************************************)
(* pkg/serializer: the operations.                                         *)
(***************************************************************************)
\* The wire names and values callers use.
SerKeys == {"email", "role", "alias"}
PayloadValues == {Str(1, TRUE), Str(5, FALSE), Num(1)}

SerPayloads ==
    UNION {[S -> PayloadValues] : S \in {S \in SUBSET SerKeys : Cardinality(S) <= MaxKeys}}

\* A struct field as reflection shows it: its name, the parts of its json
\* tag split at "," (none when there is no tag), whether it is exported, and
\* its value.
StructField(name, tag, exported, value) ==
    [Name |-> name, Tag |-> tag, Exported |-> exported, Value |-> value]

\* What Serialize is called with: a struct, a map or something else, given
\* directly or through a pointer.
Input(ptr, kind, fields, entries) ==
    [ptr |-> ptr, kind |-> kind, fields |-> fields, entries |-> entries]

SerInputs ==
    LET structs ==
          { << StructField("Email", <<"email">>, TRUE, Str(1, TRUE)),
               StructField("Role", <<"role", "omitempty">>, TRUE, Str(1, FALSE)),
               StructField("Alias", <<"alias">>, TRUE, Str(2, FALSE)),
               StructField("Extra", << >>, TRUE, Num(1)) >>,
            << StructField("email", <<"email">>, FALSE, Str(1, TRUE)),
               StructField("Role", <<"-">>, TRUE, Str(1, FALSE)),
               StructField("Nick", <<"alias">>, TRUE, Str(2, FALSE)),
               StructField("Alias", <<"alias", "omitempty">>, TRUE, Str(5, FALSE)) >> }
        maps == UNION {[S -> {Str(1, TRUE)}] : S \in SUBSET (SerKeys \cup {"extra"})}
    IN  {Input(ptr, "struct", f, NoMap) : ptr \in BOOLEAN, f \in structs}
        \cup {Input(FALSE, "map", << >>, m) : m \in maps}
        \cup {Input(TRUE, "map", << >>, m) : m \in [SerKeys -> {Str(1, TRUE)}]}
        \cup {Input(ptr, "other", << >>, NoMap) : ptr \in BOOLEAN}

\* Serialize: the name a struct field is emitted under, "-" when the field
\* is skipped (unexported, or tagged json:"-").
EmittedName(f) ==
    IF ~f.Exported THEN "-"
    ELSE IF f.Tag = << >> THEN f.Name
    ELSE f.Tag[1]

\* Variant of SerializeKeeps without the write-only test.
SerializeKeepsAll(fields, name) == name \in DOMAIN fields

\* Serialize: whether a name is copied to the output: it is a serializer
\* field and not write-only.
SerializeKeeps(fields, name) == name \in DOMAIN fields /\ ~fields[name].WriteOnly

\* Serialize: the entries the loop over a struct's fields writes, in order.
RECURSIVE StructEntries(_, _)
StructEntries(fields, sf) ==
    IF sf = << >> THEN << >>
    ELSE LET f == Head(sf)
             rest == StructEntries(fields, Tail(sf))
         IN  IF EmittedName(f) # "-" /\ SerializeKeeps(fields, EmittedName(f))
             THEN <<(<<EmittedName(f), f.Value>>)>> \o rest
             ELSE rest

\* Serialize: the output for a map input.
MapOutput(fields, entries) ==
    [name \in {k \in DOMAIN entries : SerializeKeeps(fields, k)} |-> entries[name]]

\* Serializer.Serialize
Serialize(in) ==
    /\ slast = SerIdle
    /\ UNCHANGED <<rtVars, ormVars, serModel, ser, added, vlast>>
    /\ slast' =
         IF in.kind = "struct"
         THEN SerCall("Serialize", in, "", "", PutAll(NoMap, StructEntries(ser, in.fields)))
         ELSE IF in.kind = "map"
         THEN SerCall("Serialize", in, "", "", MapOutput(ser, in.entries))
         ELSE SerCall("Serialize", in, "data must be a struct or a map", "", NoMap)

\* Variant of Defaulted without the read-only test.
DefaultedWithReadOnly(fields, data) ==
    {n \in DOMAIN fields : fields[n].Default # Nil /\ n \notin DOMAIN data}

\* Deserialize: the fields whose default the first loop writes.
Defaulted(fields, data) ==
    {n \in DOMAIN fields :
        ~fields[n].ReadOnly /\ fields[n].Default # Nil /\ n \notin DOMAIN data}

\* Variant of Copied without the read-only test.
CopiedWithReadOnly(fields, data) == {n \in DOMAIN data : n \in DOMAIN fields}

\* Deserialize: the payload keys the second loop validates and copies.
Copied(fields, data) == {n \in DOMAIN data : n \in DOMAIN fields /\ ~fields[n].ReadOnly}

\* Deserialize: the required fields the third loop finds missing.
MissingRequired(fields, result) ==
    {n \in DOMAIN fields : fields[n].Required /\ fields[n].SourceField \notin DOMAIN result}

\* Variant of DeserializeResult that stores every value under the field name
\* instead of the source name.
DeserializeResultByName(fields, data, od, oc) ==
    [n \in {od[i] : i \in 1..Len(od)} \cup {oc[i] : i \in 1..Len(oc)} |->
        IF n \in DOMAIN data THEN data[n] ELSE fields[n].Default]

\* Deserialize: the result the first two loops build, visiting the defaulted
\* fields in order od and the payload keys in order oc.
DeserializeResult(fields, data, od, oc) ==
    PutAll(PutAll(NoMap, [i \in 1..Len(od) |->
                            <<fields[od[i]].SourceField, fields[od[i]].Default>>]),
           [i \in 1..Len(oc) |-> <<fields[oc[i]].SourceField, data[oc[i]]>>])

\* Serializer.Deserialize
Deserialize(data) ==
    /\ slast = SerIdle
    /\ UNCHANGED <<rtVars, ormVars, serModel, ser, added, vlast>>
    /\ LET failing == {n \in Copied(ser, data) : ValidateField(ser, n, data[n]) # ""}
       IN  IF failing # {}
           THEN \E n \in failing :
                   slast' = SerCall("Deserialize", data,
                                    ValidateField(ser, n, data[n]), n, NoMap)
           ELSE \E od \in Orders(Defaulted(ser, data)) :
                \E oc \in Orders(Copied(ser, data)) :
                   LET result == DeserializeResult(ser, data, od, oc)
                   IN  IF MissingRequired(ser, result) # {}
                       THEN \E n \in MissingRequired(ser, result) :
                               slast' = SerCall("Deserialize", data,
                                                "field is required", n, NoMap)
                       ELSE slast' = SerCall("Deserialize", data, "", "", result)

\* Variant of ValidateMissing that counts a declared default as a value.
ValidateMissingAfterDefaults(fields, data) ==
    {n \in DOMAIN fields :
        fields[n].Required /\ fields[n].Default = Nil /\ n \notin DOMAIN data}

\* Validate: the required fields the first loop finds missing in the payload.
ValidateMissing(fields, data) ==
    {n \in DOMAIN fields : fields[n].Required /\ n \notin DOMAIN data}

\* Serializer.Validate
ValidateData(data) ==
    /\ slast = SerIdle
    /\ UNCHANGED <<rtVars, ormVars, serModel, ser, added, vlast>>
    /\ LET missing == ValidateMissing(ser, data)
           failing == {n \in DOMAIN data : ValidateField(ser, n, data[n]) # ""}
       IN  IF missing # {}
           THEN \E n \in missing :
                   slast' = SerCall("Validate", data, "field is required", n, NoMap)
           ELSE IF failing # {}
           THEN \E n \in failing :
                   slast' = SerCall("Validate", data,
                                    ValidateField(ser, n, data[n]), n, NoMap)
           ELSE slast' = SerCall("Validate", data, "", "", NoMap)

\* Serializer.AddField
AddField(name, type, opts) ==
    /\ slast = SerIdle
    /\ added < MaxAddField
    /\ ser' = Put(ser, name, AddedField(name, type, opts))
    /\ added' = added + 1
    /\ UNCHANGED <<rtVars, ormVars, serModel, slast, vlast>>

\* The caller reads the result of the serializer call.
SerReturn ==
    /\ slast # SerIdle
    /\ slast' = SerIdle
    /\ UNCHANGED <<rtVars, ormVars, serModel, ser, added, vlast>>

\* serializer.New(model) for a model of the pool; the engine is not used.
SerInit ==
    /\ driver = "sqlite3"
    /\ models = [t \in {} |-> NoModel]
    /\ tables = [t \in {} |-> NoModel.Fields]
    /\ rows = [t \in TableNames |-> {}]
    /\ autoInc = [t \in TableNames |-> 1]
    /\ last = Idle
    /\ gone = [t \in TableNames |-> 0]
    /\ serModel \in SerModelPool
    /\ ser = New(serModel)
    /\ added = 0
    /\ slast = SerIdle
    /\ vlast = VIdle
    /\ GqlUnused
    /\ RouterUnused

(***************************************************************************)
(* The engine with models that reference each other.                       *)
(***************************************************************************)
\* Three models: posts references users, users and tags reference nothing.
FkModelPool ==
    { NewModel("users", [f \in {"id"} |-> Field("int", TRUE, TRUE, FALSE, Null, 0)]),
      NewModel("tags", [f \in {"id"} |-> Field("int", TRUE, TRUE, FALSE, Null, 0)]),
      NewModel("posts", [f \in {"id", "author"} |->
                            IF f = "id" THEN Field("int", TRUE, TRUE, FALSE, Null, 0)
                            ELSE WithForeignKey(Field("int", FALSE, FALSE, TRUE, Null, 0),
                                                "users")]) }

FkNext ==
    \/ \E m \in FkModelPool : RegisterModel(m)
    \/ CreateTables
    \/ Return

\* The engine after orm.New, used to register and create the models above.
FkSpec == Init /\ [][FkNext]_vars

(***************************************************************************)
(* pkg/graphql: the handler.                                               *)
(***************************************************************************)
\* The models registered with the handler, on three table names.
GqlModelPool ==
    { NewModel("users", [f \in {"id", "name"} |->
                            Field(IF f = "id" THEN "int" ELSE "string",
                                  f = "id", f = "id", FALSE, Null, 0)]),
      NewModel("users", [f \in {"id", "email"} |->
                            Field(IF f = "id" THEN "int" ELSE "string",
                                  f = "id", f = "id", FALSE, Null, 0)]),
      NewModel("posts", [f \in {"id", "title"} |->
                            Field(IF f = "id" THEN "int" ELSE "string",
                                  f = "id", f = "id", FALSE, Null, 0)]),
      NewModel("category", [f \in {"id"} |->
                            Field("int", TRUE, TRUE, FALSE, Null, 0)]) }

\* strings.TrimSuffix(tableName, "s") on the table names of the pool.
TrimSuffixS(t) ==
    CASE t = "users" -> "user"
      [] t = "posts" -> "post"
      [] OTHER -> t

\* strings.Title(tableName) without a final "s": the type name of a model.
TypeName(t) ==
    CASE t = "users" -> "User"
      [] t = "posts" -> "Post"
      [] t = "category" -> "Category"
      [] OTHER -> t

\* The query fields Handler.RegisterModel adds for a table.
QueryFields(t) == {t, TrimSuffixS(t)}

\* The mutation fields Handler.RegisterModel adds for a table.
MutationFields(t) ==
    {<<"create", TypeName(t)>>, <<"update", TypeName(t)>>, <<"delete", TypeName(t)>>}

\* The executable schema graphql.New stores in Handler.GQLSchema: the query
\* type has the field "hello" and the mutation type has no field.  The
\* library either builds that schema or, rejecting the mutation type without
\* fields, returns an error, which New prints before storing the unusable
\* schema it got.
NewGQLSchemas ==
    { [valid |-> TRUE, query |-> {"hello"}, mutation |-> {}],
      [valid |-> FALSE, query |-> {}, mutation |-> {}] }

\* graphql.New(orm); the engine and the serializer are not used.
GqlInit ==
    /\ driver = "sqlite3"
    /\ models = [t \in {} |-> NoModel]
    /\ tables = [t \in {} |-> NoModel.Fields]
    /\ rows = [t \in TableNames |-> {}]
    /\ autoInc = [t \in TableNames |-> 1]
    /\ last = Idle
    /\ gone = [t \in TableNames |-> 0]
    /\ serModel = NoModel
    /\ ser = [name \in {} |-> SerField("", "", FALSE, FALSE, FALSE, Nil, << >>, "")]
    /\ added = 0
    /\ slast = SerIdle
    /\ vlast = VIdle
    /\ hModels = [t \in {} |-> NoModel]
    /\ hSchema = EmptySchema
    /\ hGQL \in NewGQLSchemas
    /\ glast = GIdle
    /\ RouterUnused

\* Handler.RegisterModel: fills Handler.Models and Handler.Schema and
\* returns nil; Handler.GQLSchema is not assigned.
HandlerRegisterModel(m) ==
    /\ glast = GIdle
    /\ hModels' = Registered(hModels, m)
    /\ hSchema' = [types    |-> Put(hSchema.types, TypeName(m.TableName), DOMAIN m.Fields),
                   query    |-> hSchema.query \cup QueryFields(m.TableName),
                   mutation |-> hSchema.mutation \cup MutationFields(m.TableName)]
    /\ glast' = GCall("RegisterModel", m.TableName, "", "", FALSE, "")
    /\ UNCHANGED <<hGQL, driver, models, tables, rows, autoInc, last, gone>>
    /\ UNCHANGED <<serVars, rtVars>>

\* The operations sent to ExecuteQuery: a query or a mutation of one field.
GqlRequests ==
    ({"query"} \X ({"hello", "bogus"} \cup UNION {QueryFields(m.TableName) : m \in GqlModelPool}))
    \cup ({"mutation"} \X UNION {MutationFields(m.TableName) : m \in GqlModelPool})

\* Handler.ExecuteQuery: graphql.Do on Handler.GQLSchema.  A field the
\* schema's type does not have is rejected; "hello" resolves to "world".
ExecuteQuery(kind, field) ==
    /\ glast = GIdle
    /\ glast' =
          IF hGQL.valid /\ kind = "query" /\ field \in hGQL.query
          THEN GCall("ExecuteQuery", "", kind, field, FALSE, "world")
          ELSE GCall("ExecuteQuery", "", kind, field, TRUE, "")
    /\ UNCHANGED <<hModels, hSchema, hGQL, driver, models, tables, rows, autoInc, last, gone>>
    /\ UNCHANGED <<serVars, rtVars>>

\* The caller reads the result of the handler call.
GqlReturn ==
    /\ glast # GIdle
    /\ glast' = GIdle
    /\ UNCHANGED <<hModels, hSchema, hGQL, driver, models, tables, rows, autoInc, last, gone>>
    /\ UNCHANGED <<serVars, rtVars>>

GqlNext ==
    \/ \E m \in GqlModelPool : HandlerRegisterModel(m)
    \/ \E r \in GqlRequests : ExecuteQuery(r[1], r[2])
    \/ GqlReturn

GqlSpec == GqlInit /\ [][GqlNext]_vars

(***************************************************************************)
(* The validators called on their own.                                     *)
(***************************************************************************)
\* The bounds RangeValidator is created with: those of the examples (0.01 to
\* 1000000, 0 to 1000000, 1 to 100) and 0 to 2^53.
RangeBounds ==
    { <<Float(FALSE, FALSE, 1), Float(FALSE, FALSE, 100000000)>>,
      <<Float(FALSE, FALSE, 0), Float(FALSE, FALSE, 100000000)>>,
      <<Float(FALSE, FALSE, 100), Float(FALSE, FALSE, 10000)>>,
      <<Float(FALSE, FALSE, 0), Float(FALSE, TRUE, 0)>> }

\* The lengths MinLengthValidator and MaxLengthValidator are created with.
LengthBounds == {3, 8}

\* The patterns RegexValidator is created with: a valid and an invalid one.
Patterns == {"^[a-z]+$", "["}

\* The values the validators are called with: 500.0, -1, 2000000, 0.01,
\* 1000000, not-a-number, the int64 2^53 + 1, the float64 2^53, strings of
\* one-byte and of two-byte characters, and a bool.
ValValues ==
    { Numeric("float64", FALSE, 50000), Numeric("int", FALSE, -100),
      Numeric("int", FALSE, 200000000), Numeric("float64", FALSE, 1),
      Numeric("int", FALSE, 100000000), NaN,
      Numeric("int64", TRUE, 1), Numeric("float64", TRUE, 0),
      Text(7, 7), Text(8, 8), Text(7, 13), Text(3, 3), Text(2, 4), Bool }

\* RangeValidator(min, max)(value)
CallRange(min, max, value) ==
    /\ vlast = VIdle
    /\ vlast' = VCall("Range", 0, "", min, max, value, ApplyRange(min, max, value))
    /\ UNCHANGED <<rtVars, ormVars, serModel, ser, added, slast>>

\* MinLengthValidator(n)(value) and MaxLengthValidator(n)(value)
CallLength(v, value) ==
    /\ vlast = VIdle
    /\ vlast' = VCall(v.kind, v.n, "", Float(FALSE, FALSE, 0), Float(FALSE, FALSE, 0),
                      value, ApplyValidator(v, value))
    /\ UNCHANGED <<rtVars, ormVars, serModel, ser, added, slast>>

\* RegexValidator(pattern)(value)
CallRegex(pattern, value) ==
    /\ vlast = VIdle
    /\ vlast' = VCall("Regex", 0, pattern, Float(FALSE, FALSE, 0), Float(FALSE, FALSE, 0),
                      value, ApplyValidator(RegexValidator(pattern), value))
    /\ UNCHANGED <<rtVars, ormVars, serModel, ser, added, slast>>

\* The caller reads the result of the validator call.
ValReturn ==
    /\ vlast # VIdle
    /\ vlast' = VIdle
    /\ UNCHANGED <<rtVars, ormVars, serModel, ser, added, slast>>

\* No engine and no serializer: the validators are plain functions.
ValInit ==
    /\ driver = "sqlite3"
    /\ models = [t \in {} |-> NoModel]
    /\ tables = [t \in {} |-> NoModel.Fields]
    /\ rows = [t \in TableNames |-> {}]
    /\ autoInc = [t \in TableNames |-> 1]
    /\ last = Idle
    /\ gone = [t \in TableNames |-> 0]
    /\ serModel = NoModel
    /\ ser = [name \in {} |-> SerField("", "", FALSE, FALSE, FALSE, Nil, << >>, "")]
    /\ added = 0
    /\ slast = SerIdle
    /\ vlast = VIdle
    /\ GqlUnused
    /\ RouterUnused

ValNext ==
    \/ \E b \in RangeBounds : \E value \in ValValues : CallRange(b[1], b[2], value)
    \/ \E n \in LengthBounds : \E value \in ValValues :
          CallLength(MinLengthValidator(n), value)
    \/ \E n \in LengthBounds : \E value \in ValValues :
          CallLength(MaxLengthValidator(n), value)
    \/ \E pattern \in Patterns : \E value \in ValValues : CallRegex(pattern, value)
    \/ ValReturn

ValSpec == ValInit /\ [][ValNext]_vars

\* The fields callers declare with AddField: one of the model's and a new one.
AddFieldNames == {"email", "alias"}

SerNext ==
    \/ \E name \in AddFieldNames : \E type \in {"string"} : \E opts \in SUBSET Options :
          AddField(name, type, opts)
    \/ \E in \in SerInputs : Serialize(in)
    \/ \E data \in SerPayloads : Deserialize(data)
    \/ \E data \in SerPayloads : ValidateData(data)
    \/ SerReturn

SerSpec == SerInit /\ [][SerNext]_vars

(***************************************************************************)
(* pkg/api: the controller's handlers.                                     *)
(***************************************************************************)
\* A JSON object: its members and the Go type its values decode to.
Body(data, kind) == [data |-> data, kind |-> kind]

\* A request body that is not JSON.
Malformed == Body(NoData, "malformed")

\* json.Decoder.Decode returns no error.
Decoded(body) == body # Malformed

\* Controller.Model and the table the controller writes: the README's model.
ControllerModel ==
    NewModel("users", [f \in {"id", "name"} |->
                          IF f = "id" THEN Field("int", TRUE, TRUE, FALSE, Null, 0)
                                      ELSE Field("string", FALSE, FALSE, TRUE, Null, 0)])

\* DefaultSerializer.Validate: TRUE when it returns nil. A field that is
\* absent must not be NotNull without a default; a value that is present
\* must have the field's type and, for a string, at most MaxLength bytes.
DefaultValidate(m, body) ==
    \A name \in DOMAIN m.Fields :
        LET field == m.Fields[name]
        IN IF name \notin DOMAIN body.data
           THEN ~(field.NotNull /\ field.Default = Null)
           ELSE /\ body.kind = field.Type
                /\ ~(field.Type = "string" /\ field.MaxLength > 0
                     /\ body.data[name] > field.MaxLength)

\* extractIDFromURL: the text after the last "/".
extractIDFromURL(path) == LET parts == Split(path) IN parts[Len(parts)]

\* The identifier a text denotes to the database (0: no row has it).
IdOf(text) == IF text = <<"1">> THEN 1 ELSE IF text = <<"2">> THEN 2 ELSE 0

Controllers == {"Create", "Update"}

\* Variant of ControllerWrites that writes whatever decodes.
ControllerWritesUnvalidated(handler, req) ==
    /\ handler = "Update" => extractIDFromURL(req.Path) # << >>
    /\ Decoded(req.Body)

\* Controller.Create and Controller.Update reach the ORM call: the id is
\* not empty (Update), the body decodes and Serializer.Validate returns nil.
ControllerWrites(handler, req) ==
    /\ handler = "Update" => extractIDFromURL(req.Path) # << >>
    /\ Decoded(req.Body)
    /\ DefaultValidate(ControllerModel, req.Body)

\* The steps a handler takes.
ControllerSteps(handler, req) ==
    IF handler \notin Controllers THEN << >>
    ELSE IF handler = "Update" /\ extractIDFromURL(req.Path) = << >> THEN <<"ID">>
    ELSE IF ~Decoded(req.Body) THEN <<"Decode">>
    ELSE IF ~ControllerWrites(handler, req) THEN <<"Decode", "Validate">>
    ELSE <<"Decode", "Validate", "ORM." \o handler>>

\* What a handler answers; call is the record of the ORM call it made. The
\* handler List answers 200 unless it panics.
HandlerDoes(handler, req, call) ==
    IF handler \notin Controllers
    THEN [status |-> IF req.Panics THEN 0 ELSE 200, panicked |-> req.Panics]
    ELSE [status |-> IF ~ControllerWrites(handler, req) THEN 400
                     ELSE IF call.err THEN 500
                     ELSE IF handler = "Create" THEN 201 ELSE 204,
          panicked |-> FALSE]

(***************************************************************************)
(* package router: the operations.                                         *)
(***************************************************************************)
MaxRoutes == 2    \* routes registered at most
MaxRouterMw == 2  \* middleware added to the router at most
MaxGroupMw == 3   \* middleware added to the group at most

\* Router.Use.
RouterUse(mws) ==
    /\ rlast = RIdle
    /\ Len(rMiddleware) + Len(mws) <= MaxRouterMw
    /\ rMiddleware' = rMiddleware \o mws
    /\ rlast' = RCall("Use", mws, << >>, NoRequest, "", 0, NoParams, << >>, NoneDone, << >>)
    /\ UNCHANGED <<heap, rRoutes, group>>
    /\ UNCHANGED <<ormVars, serVars>>

\* Router.Handle (GET, POST, ... call it with their method).
RouterHandle(method, pattern, handler, mws) ==
    /\ rlast = RIdle
    /\ Len(rRoutes) < MaxRoutes
    /\ LET v == Variadic(heap, mws)
       IN /\ heap' = v.heap
          /\ rRoutes' = Append(rRoutes, Route(pattern, method, handler, v.slice))
    /\ rlast' = RCall("Handle", mws, << >>, NoRequest, "", 0, NoParams, << >>, NoneDone,
                      << >>)
    /\ UNCHANGED <<rMiddleware, group>>
    /\ UNCHANGED <<ormVars, serVars>>

\* Router.Group.
RouterGroup(prefix, mws) ==
    /\ rlast = RIdle
    /\ ~group.made
    /\ LET v == Variadic(heap, mws)
       IN /\ heap' = v.heap
          /\ group' = [made |-> TRUE, Prefix |-> prefix, Middleware |-> v.slice]
    /\ rlast' = RCall("Group", mws, << >>, NoRequest, "", 0, NoParams, << >>, NoneDone,
                      << >>)
    /\ UNCHANGED <<rRoutes, rMiddleware>>
    /\ UNCHANGED <<ormVars, serVars>>

\* Group.Use.
GroupUse(mws) ==
    /\ rlast = RIdle
    /\ group.made
    /\ group.Middleware.len + Len(mws) <= MaxGroupMw
    /\ LET a == AppendSlice(heap, group.Middleware, mws)
       IN /\ heap' = a.heap
          /\ group' = [group EXCEPT !.Middleware = a.slice]
    /\ rlast' = RCall("GroupUse", mws, Elements(heap, group.Middleware), NoRequest, "", 0,
                      NoParams, << >>, NoneDone, << >>)
    /\ UNCHANGED <<rRoutes, rMiddleware>>
    /\ UNCHANGED <<ormVars, serVars>>

\* The pattern Group.Handle registers.
FullPattern(prefix, pattern) ==
    (IF HasSuffix(prefix) THEN prefix ELSE prefix \o <<"/">>)
        \o (IF pattern # << >> /\ pattern[1] = "/" THEN Tail(pattern) ELSE pattern)

\* Group.Handle: the route is registered with the slice append returned.
GroupHandle(method, pattern, handler, mws) ==
    /\ rlast = RIdle
    /\ group.made
    /\ Len(rRoutes) < MaxRoutes
    /\ LET a == AppendSlice(heap, group.Middleware, mws)
       IN /\ heap' = a.heap
          /\ rRoutes' = Append(rRoutes, Route(FullPattern(group.Prefix, pattern), method,
                                              handler, a.slice))
    /\ rlast' = RCall("GroupHandle", mws, Elements(heap, group.Middleware), NoRequest, "",
                      0, NoParams, << >>, NoneDone, << >>)
    /\ UNCHANGED <<rMiddleware, group>>
    /\ UNCHANGED <<ormVars, serVars>>

\* Variant of Dispatch that takes the first route whose pattern matches,
\* whatever its method.
RECURSIVE DispatchAnyMethod(_, _, _, _)
DispatchAnyMethod(rs, i, req, allow) ==
    IF i > Len(rs)
    THEN [outcome |-> "404", route |-> 0, matches |-> << >>, allow |-> allow]
    ELSE LET matches == FindStringSubmatch(rs[i].RegexPattern, req.Path)
         IN IF Len(matches) > 0
            THEN [outcome |-> "handler", route |-> i, matches |-> matches, allow |-> allow]
            ELSE DispatchAnyMethod(rs, i + 1, req, allow)

\* The loop of ServeHTTP over the routes rs[i..]: the outcome, the route
\* taken, its submatches and the methods collected for the Allow header.
RECURSIVE Dispatch(_, _, _, _)
Dispatch(rs, i, req, allow) ==
    IF i > Len(rs)
    THEN [outcome |-> IF Len(allow) > 0 THEN "405" ELSE "404", route |-> 0,
          matches |-> << >>, allow |-> allow]
    ELSE LET matches == FindStringSubmatch(rs[i].RegexPattern, req.Path)
         IN IF Len(matches) > 0
            THEN IF rs[i].Method # req.Method
                 THEN Dispatch(rs, i + 1, req, Append(allow, rs[i].Method))
                 ELSE [outcome |-> "handler", route |-> i, matches |-> matches,
                       allow |-> allow]
            ELSE Dispatch(rs, i + 1, req, allow)

\* params[param] = matches[i+1] for every path parameter, in order.
PathParamsOf(names, matches) ==
    [n \in {names[k] : k \in 1..Len(names)} |->
        matches[1 + Max({k \in 1..Len(names) : names[k] = n})]]

\* Router.ServeHTTP, the handler it calls included.
ServeHTTP(req) ==
    /\ rlast = RIdle
    /\ last = Idle
    /\ UNCHANGED <<heap, rRoutes, rMiddleware, group>>
    /\ LET d == Dispatch(rRoutes, 1, req, << >>)
       IN IF d.outcome # "handler"
          THEN /\ rlast' = RCall("ServeHTTP", << >>, << >>, req, d.outcome, 0, NoParams,
                                 d.allow,
                                 Done(<< >>, IF d.outcome = "405" THEN 405 ELSE 404,
                                      FALSE, FALSE, FALSE),
                                 << >>)
               /\ UNCHANGED <<ormVars, serVars>>
          ELSE LET route == rRoutes[d.route]
                   chain == Chain(rMiddleware, Elements(heap, route.Middleware))
                   dry == Exec(chain, 1, req, [status |-> 0, panicked |-> FALSE])
               IN /\ IF dry.handled /\ route.Handler \in Controllers
                           /\ ControllerWrites(route.Handler, req)
                     THEN IF route.Handler = "Create"
                          THEN Create(ControllerModel.TableName, req.Body.data)
                          ELSE Update(ControllerModel.TableName,
                                      IdOf(extractIDFromURL(req.Path)), req.Body.data)
                     ELSE UNCHANGED <<ormVars, serVars>>
                  /\ rlast' = RCall("ServeHTTP", << >>, << >>, req, "handler", d.route,
                                    PathParamsOf(route.PathParams, d.matches), << >>,
                                    Exec(chain, 1, req,
                                         HandlerDoes(route.Handler, req, last')),
                                    IF dry.handled
                                    THEN ControllerSteps(route.Handler, req) ELSE << >>)

\* The caller reads the result of the router call.
RouterReturn ==
    /\ rlast # RIdle
    /\ rlast' = RIdle
    /\ last' = Idle
    /\ UNCHANGED <<heap, rRoutes, rMiddleware, group>>
    /\ UNCHANGED <<driver, models, tables, rows, autoInc, gone>>
    /\ UNCHANGED <<serVars, gqlVars>>

\* The methods, patterns, paths and middleware callers use.
Methods == {"GET", "POST"}

RoutePatterns == {<<"/", "u">>, <<"/", "u", "/", ":", "i">>, <<"/", "u", ".", "1">>}

GroupPrefix == <<"/", "u">>

GroupPatterns == {<<"/", ":", "i">>, <<"1">>}

Paths == {<<"/", "u">>, <<"/", "u", "/", "1">>, <<"/", "u", ".", "1">>,
          <<"/", "u", "/">>, <<"/", "x">>}

RouterMws == {"Logger", "Recovery", "CORS"}

RouteMws == {<< >>, <<"Auth">>}

GroupMws == {"Logger", "Auth"}

Requests ==
    {Request(m, p, a, NoBody, x) : m \in Methods, p \in Paths, a \in BOOLEAN, x \in BOOLEAN}

\* The router with direct routes and the routes of a group made with Auth.
RouterNext ==
    \/ \E m \in RouterMws : RouterUse(<<m>>)
    \/ \E m \in Methods : \E p \in RoutePatterns : \E mws \in RouteMws :
          RouterHandle(m, p, "List", mws)
    \/ RouterGroup(GroupPrefix, <<"Auth">>)
    \/ \E m \in Methods : \E p \in GroupPatterns : GroupHandle(m, p, "List", <<"Logger">>)
    \/ \E req \in Requests : ServeHTTP(req)
    \/ RouterReturn

RouterSpec == Init /\ [][RouterNext]_vars

\* The middleware a group is made with and the middleware its routes add.
GroupMade == {<< >>, <<"Logger", "Auth">>}

GroupOwn == {<< >>, <<"Auth">>, <<"CORS">>}

\* A group, its middleware and its routes.
GroupNext ==
    \/ \E mws \in GroupMade : RouterGroup(GroupPrefix, mws)
    \/ \E m \in GroupMws : GroupUse(<<m>>)
    \/ \E p \in GroupPatterns : \E mws \in GroupOwn : GroupHandle("GET", p, "List", mws)
    \/ RouterReturn

GroupSpec == Init /\ [][GroupNext]_vars

(***************************************************************************)
(* pkg/api behind the router: an application that registers the model,    *)
(* creates the table and routes requests to the controller.                *)
(***************************************************************************)
ApiMethods == {"POST", "PUT", "OPTIONS"}

\* The routes of the controller: method, pattern, handler.
ApiRoutes ==
    { <<"POST", <<"/", "u">>, "Create">>,
      <<"PUT", <<"/", "u", "/", ":", "i">>, "Update">>,
      <<"OPTIONS", <<"/", "u">>, "Create">> }

ApiRouteMws == {<< >>, <<"Auth">>, <<"CORS", "Auth">>}

ApiPaths == {<<"/", "u">>, <<"/", "u", "/", "1">>}

\* The bodies clients send: no JSON, an empty object, a name that is a
\* JSON number and a name that is a JSON string.
ApiBodies ==
    { Malformed,
      Body(NoData, "string"),
      Body([c \in {"name"} |-> 1], "float64"),
      Body([c \in {"name"} |-> 1], "string") }

ApiRequests ==
    {Request(m, p, a, b, FALSE) : m \in ApiMethods, p \in ApiPaths, a \in BOOLEAN,
                                  b \in ApiBodies}

ApiNext ==
    \/ RegisterModel(ControllerModel) /\ rlast = RIdle
    \/ CreateTables /\ rlast = RIdle
    \/ Return /\ rlast = RIdle
    \/ RouterUse(<<"CORS">>) /\ last = Idle
    \/ \E r \in ApiRoutes : \E mws \in ApiRouteMws :
          RouterHandle(r[1], r[2], r[3], mws) /\ last = Idle
    \/ \E req \in ApiRequests : ServeHTTP(req)
    \/ RouterReturn

ApiSpec == Init /\ [][ApiNext]_vars

(***************************************************************************)
(* Properties of the engine, checked under Spec.                           *)
(***************************************************************************)
\* The columns of a statement's column list.
StmtCols(stmt) == {stmt.cols[k] : k \in 1..Len(stmt.cols)}

\* C1: RegisterModel returns no error if and only if the model has at least
\* one field and at least one field flagged primary key; a model without
\* fields or without a primary key is rejected and not put in the registry,
\* an accepted model is what the registry then holds for its table.
C1_RegisterModelValidates ==
    last.op = "RegisterModel" =>
        LET fields == last.model.Fields
            good   == /\ Cardinality(DOMAIN fields) >= 1
                      /\ Cardinality({f \in DOMAIN fields : fields[f].PrimaryKey}) >= 1
        IN  /\ last.err <=> ~good
            /\ good => /\ last.table \in DOMAIN models
                       /\ models[last.table] = last.model
            /\ ~good => (last.table \in DOMAIN models => models[last.table] # last.model)

\* C1 witness: a model with fields but no primary key was rejected after a
\* model with a primary key had been registered.
C1_Witness ==
    /\ last.op = "RegisterModel"
    /\ last.err
    /\ DOMAIN last.model.Fields # {}
    /\ last.table \in DOMAIN models

\* C2 (as claimed): on every dialect, a Create whose payload names only
\* declared fields and whose row the database stored returns no error and a
\* positive identifier, and Get with that identifier finds a row carrying
\* every supplied column.  Stated for models with a single primary key.
C2_CreateReturnsIdOnEveryDialect ==
    (/\ last.op = "Create"
     /\ last.row # NoData
     /\ Cardinality(PrimaryKeys(last.model.Fields)) = 1)
    => /\ ~last.err
       /\ last.ret > 0
       /\ \A pk \in ResolvePrimaryKey(last.model.Fields) :
             /\ Matching(last.table, pk, last.ret) # {}
             /\ \A r \in Matching(last.table, pk, last.ret) :
                   \A c \in DOMAIN last.data : r[c] = last.data[c]

\* Whether an Update call carried the payload {f: v} for one declared
\* non-key field f and reported no error.
IsFieldUpdate(call) ==
    /\ call.op = "Update"
    /\ ~call.err
    /\ Cardinality(DOMAIN call.data) = 1
    /\ \A f \in DOMAIN call.data :
          f \in DOMAIN call.model.Fields /\ ~call.model.Fields[f].PrimaryKey

\* C3 (as claimed): an Update of one non-key field f to v on an existing id
\* makes every later Get of that id return f = v with the other columns as
\* they were, and changes no other row: at most one row of the table differs.
C3_UpdateRoundTrip ==
    [][ IsFieldUpdate(last') =>
          LET t == last'.table
              id == last'.id
              f == CHOOSE f \in DOMAIN last'.data : TRUE
          IN  /\ Cardinality(rows[t] \ rows'[t]) <= 1
              /\ \A pk \in ResolvePrimaryKey(last'.model.Fields) :
                    \A r \in {r \in rows[t] : r[pk] = id} :
                       /\ [r EXCEPT ![f] = last'.data[f]] \in rows'[t]
                       /\ \A r2 \in {r2 \in rows'[t] : r2[pk] = id} :
                             r2[f] = last'.data[f] ]_vars

\* C4 (as claimed): once Delete(table, id) has returned no error, Get(table,
\* id) returns an error until a row with that id is created again.
C4_DeletedStaysGone ==
    (last.op = "Get" /\ gone[last.table] = last.id) => last.err

\* C8: a Create on an unregistered table, or with a payload key that is not
\* a declared field, returns an error and identifier 0, sends no statement
\* and leaves the rows and the counters of the database as they were.
C8_CreateRejectsBeforeSending ==
    [][ (/\ last'.op = "Create"
         /\ \/ last'.table \notin DOMAIN models
            \/ \E c \in DOMAIN last'.data : c \notin DOMAIN models[last'.table].Fields)
        => /\ last'.err
           /\ last'.ret = 0
           /\ last'.stmts = << >>
           /\ rows' = rows
           /\ autoInc' = autoInc ]_vars

\* C8 witness: a Create on a registered and created table was rejected
\* because one of its two payload keys is not a declared field.
C8_Witness ==
    /\ last.op = "Create"
    /\ last.table \in DOMAIN models
    /\ last.table \in DOMAIN tables
    /\ Cardinality(DOMAIN last.data) = 2
    /\ \E c \in DOMAIN last.data : c \notin DOMAIN models[last.table].Fields
    /\ \E c \in DOMAIN last.data : c \in DOMAIN models[last.table].Fields
    /\ last.err

\* C9 (as claimed): the SET clause of the statement Update sends assigns
\* exactly the payload keys that are declared fields and not primary-key
\* fields, and an undeclared payload key makes Update send nothing.
C9_UpdateNeverSetsPrimaryKey ==
    last.op = "Update" =>
        LET fields == last.model.Fields
        IN  /\ (\E c \in DOMAIN last.data : c \notin DOMAIN fields) => last.stmts = << >>
            /\ last.stmts # << >> =>
                  StmtCols(last.stmts[1]) =
                     {c \in DOMAIN last.data : c \in DOMAIN fields /\ ~fields[c].PrimaryKey}

\* C10 (as claimed): on a created table whose columns are the registered
\* model's, an Update with a non-empty payload of declared keys, or a Delete,
\* for an id no row has, returns no error and changes no row.
C10_MissingIdIsSilentNoOp ==
    [][ (/\ last'.op \in {"Update", "Delete"}
         /\ last'.table \in DOMAIN models
         /\ last'.table \in DOMAIN tables
         /\ tables[last'.table] = models[last'.table].Fields
         /\ last'.op = "Update" =>
               /\ DOMAIN last'.data # {}
               /\ DOMAIN last'.data \subseteq DOMAIN models[last'.table].Fields
         /\ \A pk \in PrimaryKeys(models[last'.table].Fields) :
               Matching(last'.table, pk, last'.id) = {})
        => /\ ~last'.err
           /\ rows' = rows ]_vars

(***************************************************************************)
(* Properties of the serializer, checked under SerSpec.                    *)
(***************************************************************************)
\* The model fields New marks required: not-null without a default.
ModelRequired == {f \in DOMAIN serModel.Fields :
                     serModel.Fields[f].NotNull /\ serModel.Fields[f].Default = Nil}

\* C5 (as claimed): Deserialize returns an error for every payload lacking a
\* field the model declares not-null without default, also after AddField
\* re-declared the field without a default, a source name or read-only.
C5_RequiredSurvivesAddField ==
    (/\ slast.op = "Deserialize"
     /\ \E f \in ModelRequired :
           /\ f \notin DOMAIN slast.input
           /\ ser[f].Default = Nil
           /\ ser[f].SourceField = f
           /\ ~ser[f].ReadOnly
           /\ \A n \in DOMAIN ser \ {f} : ser[n].SourceField # f)
    => slast.err # ""

\* Whether no other field that Deserialize writes shares the source name of
\* field n.
SourceUnshared(n) ==
    \A m \in DOMAIN ser \ {n} :
        ~ser[m].ReadOnly => ser[m].SourceField # ser[n].SourceField

\* C6 (as claimed): after a successful Deserialize, every non-read-only
\* field with a default whose key the payload lacks has its source name
\* mapped to the default, and every non-read-only field whose key the payload
\* has has its source name mapped to the payload value.
C6_DefaultsFilled ==
    (slast.op = "Deserialize" /\ slast.err = "") =>
        \A n \in DOMAIN ser :
            ~ser[n].ReadOnly =>
               /\ (n \notin DOMAIN slast.input /\ ser[n].Default # Nil) =>
                     /\ ser[n].SourceField \in DOMAIN slast.out
                     /\ slast.out[ser[n].SourceField] = ser[n].Default
               /\ n \in DOMAIN slast.input =>
                     /\ ser[n].SourceField \in DOMAIN slast.out
                     /\ slast.out[ser[n].SourceField] = slast.input[n]

\* C6 (amended): the same, for the fields whose source name no other
\* non-read-only field of the serializer shares.
C6_DefaultsFilledUnshared ==
    (slast.op = "Deserialize" /\ slast.err = "") =>
        \A n \in DOMAIN ser :
            (~ser[n].ReadOnly /\ SourceUnshared(n)) =>
               /\ (n \notin DOMAIN slast.input /\ ser[n].Default # Nil) =>
                     /\ ser[n].SourceField \in DOMAIN slast.out
                     /\ slast.out[ser[n].SourceField] = ser[n].Default
               /\ n \in DOMAIN slast.input =>
                     /\ ser[n].SourceField \in DOMAIN slast.out
                     /\ slast.out[ser[n].SourceField] = slast.input[n]

\* C6 witness: a successful Deserialize filled the default of an absent
\* renamed field under its source name and copied a payload value.
C6_Witness ==
    /\ slast.op = "Deserialize"
    /\ slast.err = ""
    /\ DOMAIN slast.input # {}
    /\ \E n \in DOMAIN ser :
          /\ ~ser[n].ReadOnly
          /\ SourceUnshared(n)
          /\ ser[n].SourceField # n
          /\ ser[n].Default # Nil
          /\ n \notin DOMAIN slast.input
          /\ slast.out[ser[n].SourceField] = ser[n].Default

\* The names under which a Serialize input offers values.
InputNames(in) ==
    IF in.kind = "struct" THEN {EmittedName(in.fields[i]) : i \in 1..Len(in.fields)}
    ELSE DOMAIN in.entries

\* C7: the mapping Serialize returns for a struct or map input has no key of
\* a write-only field and no key outside the serializer's field set.
C7_SerializeHidesWriteOnly ==
    slast.op = "Serialize" =>
        \A k \in DOMAIN slast.out : k \in DOMAIN ser /\ ~ser[k].WriteOnly

\* C7 witness: Serialize of a pointer to a struct that carries a write-only
\* field and a name outside the field set returned a non-empty mapping.
C7_Witness ==
    /\ slast.op = "Serialize"
    /\ slast.input.kind = "struct"
    /\ slast.input.ptr
    /\ \E k \in InputNames(slast.input) : k \in DOMAIN ser /\ ser[k].WriteOnly
    /\ \E k \in InputNames(slast.input) : k \notin DOMAIN ser
    /\ DOMAIN slast.out # {}

(***************************************************************************)
(* Further properties of the engine, checked under Spec.                   *)
(***************************************************************************)
\* C11: a RegisterModel that succeeds for a table name the registry already
\* holds makes the registry map that name to the new model only and keeps
\* the number of entries, and Create and Update check the payload keys
\* against the fields of the model the registry holds.
C11_ReRegistrationOverwrites ==
    [][ /\ (last'.op = "RegisterModel" /\ ~last'.err /\ last'.table \in DOMAIN models) =>
              /\ models'[last'.table] = last'.model
              /\ DOMAIN models' = DOMAIN models
              /\ Cardinality(DOMAIN models') = Cardinality(DOMAIN models)
        /\ (last'.op \in {"Create", "Update"} /\ last'.table \in DOMAIN models') =>
              /\ last'.model = models'[last'.table]
              /\ (\E c \in DOMAIN last'.data : c \notin DOMAIN models'[last'.table].Fields)
                    => (last'.err /\ last'.stmts = << >>)
              /\ (\A c \in DOMAIN last'.data : c \in DOMAIN models'[last'.table].Fields)
                    => last'.stmts # << >> ]_vars

\* C11 witness: the table was created from a first model, a second model was
\* registered under the same name, and a Create was rejected for a key that
\* only the first model declares.
C11_Witness ==
    /\ last.op = "Create"
    /\ last.err
    /\ last.stmts = << >>
    /\ last.table \in DOMAIN tables
    /\ last.table \in DOMAIN models
    /\ \A c \in DOMAIN last.data : c \in DOMAIN tables[last.table]
    /\ \E c \in DOMAIN last.data : c \notin DOMAIN models[last.table].Fields

\* C12: the registry changes only in a step of a RegisterModel call that
\* returns no error; a RegisterModel that fails validation and every call of
\* CreateTables, Create, Get, Update, Delete and Query leave it as it was.
C12_RegistryChangesOnlyByRegisterModel ==
    [][ /\ models' # models => (last'.op = "RegisterModel" /\ ~last'.err)
        /\ (last'.op = "RegisterModel" /\ last'.err) => models' = models
        /\ last'.op \in {"CreateTables", "Create", "Get", "Update", "Delete", "Query"}
              => models' = models ]_vars

\* C12 witness: with a model registered and its table holding a row, a Query
\* returned rows; the registry still holds the model.
C12_Witness ==
    /\ last.op = "Query"
    /\ ~last.err
    /\ last.ret > 0
    /\ last.table \in DOMAIN models

\* C13: a CreateTables call made when every registered model already has
\* its table returns no error and leaves the tables, their columns and all
\* rows as they were.
C13_CreateTablesIdempotent ==
    [][ (/\ last'.op = "CreateTables"
         /\ \A t \in DOMAIN models : t \in DOMAIN tables)
        => /\ ~last'.err
           /\ tables' = tables
           /\ rows' = rows
           /\ autoInc' = autoInc ]_vars

\* C13 witness: CreateTables returned for a registry whose table already
\* exists and holds a row.
C13_Witness ==
    /\ last.op = "CreateTables"
    /\ ~last.err
    /\ DOMAIN models # {}
    /\ \A t \in DOMAIN models : t \in DOMAIN tables /\ rows[t] # {}

\* C14 (as claimed): every call of Create, Get, Update, Delete and Query
\* that reaches the database sends exactly one statement.
C14_OneStatementPerCall ==
    (last.op \in {"Create", "Get", "Update", "Delete", "Query"} /\ last.stmts # << >>)
        => Len(last.stmts) = 1

(***************************************************************************)
(* Further properties of the serializer, checked under SerSpec.            *)
(***************************************************************************)
\* The values a Deserialize result may hold under source name s: the payload
\* value of a non-read-only field with that source name, or the default of
\* such a field when the payload lacks its key.
WritableValues(s, data) ==
    {data[n] : n \in {n \in DOMAIN data \cap DOMAIN ser :
                         ~ser[n].ReadOnly /\ ser[n].SourceField = s}}
    \cup {ser[n].Default : n \in {n \in DOMAIN ser \ DOMAIN data :
                         /\ ~ser[n].ReadOnly
                         /\ ser[n].SourceField = s
                         /\ ser[n].Default # Nil}}

\* C15: every entry of a successful Deserialize result is the payload value
\* or the default of a field that is not read-only, so nothing the payload
\* holds for a read-only field and no default of a read-only field gets into
\* it; a validation error of Deserialize is never that of a read-only field,
\* and a payload whose other keys are valid is not rejected by validation.
C15_ReadOnlyIgnoredByDeserialize ==
    slast.op = "Deserialize" =>
        /\ slast.err = "" =>
              \A s \in DOMAIN slast.out : slast.out[s] \in WritableValues(s, slast.input)
        /\ slast.err \notin {"", "field is required"} =>
              /\ slast.field \in DOMAIN ser
              /\ ~ser[slast.field].ReadOnly
        /\ (\A n \in DOMAIN slast.input \cap DOMAIN ser :
               ~ser[n].ReadOnly => ValidateField(ser, n, slast.input[n]) = "")
              => slast.err \in {"", "field is required"}

\* C15 witness: Deserialize succeeded with a non-empty result on a payload
\* holding, for a read-only field that declares a default, a value its type
\* check rejects, and that value is not in the result.
C15_Witness ==
    /\ slast.op = "Deserialize"
    /\ slast.err = ""
    /\ DOMAIN slast.out # {}
    /\ \E n \in DOMAIN slast.input \cap DOMAIN ser :
          /\ ser[n].ReadOnly
          /\ ser[n].Default # Nil
          /\ ValidateField(ser, n, slast.input[n]) # ""
          /\ \A s \in DOMAIN slast.out : slast.out[s] # slast.input[n]

\* C16: when Deserialize fails validating a value of the field's type, the
\* error it returns is the error of the first validator, in declaration
\* order, that rejects the value (every validator declared before it accepts
\* the value), and no result mapping is returned.
C16_FirstFailingValidatorWins ==
    (/\ slast.op = "Deserialize"
     /\ slast.err \notin {"", "field is required", "field has invalid type"})
    => /\ slast.out = NoMap
       /\ slast.field \in DOMAIN slast.input \cap DOMAIN ser
       /\ LET vs == ser[slast.field].Validators
              v  == slast.input[slast.field]
          IN  \E i \in 1..Len(vs) :
                 /\ ApplyValidator(vs[i], v) = slast.err
                 /\ \A j \in 1..(i - 1) : ApplyValidator(vs[j], v) = ""

\* C16 witness: Deserialize failed on a field with two validators that both
\* reject the value, with different errors.
C16_Witness ==
    /\ slast.op = "Deserialize"
    /\ slast.err # ""
    /\ slast.field \in DOMAIN slast.input \cap DOMAIN ser
    /\ LET vs == ser[slast.field].Validators
           v  == slast.input[slast.field]
       IN  /\ Len(vs) = 2
           /\ ApplyValidator(vs[1], v) # ""
           /\ ApplyValidator(vs[2], v) # ""
           /\ ApplyValidator(vs[1], v) # ApplyValidator(vs[2], v)
           /\ slast.err = ApplyValidator(vs[1], v)

\* Whether a payload value passes a field's type check and every validator
\* of the field.
PassesField(field, value) ==
    /\ \/ value.type = field.Type
       \/ value = Nil
       \/ (field.Type = "time" /\ value.type = "string")
    /\ \A i \in 1..Len(field.Validators) : ApplyValidator(field.Validators[i], value) = ""

\* C17: Validate returns no error exactly when every required field's name
\* is a key of the payload and every key of the payload names a field whose
\* type check and validators all accept the value; a default does not stand
\* in for an absent required field; the serializer's fields are unchanged.
C17_ValidateIsRequiredPlusValidators ==
    [][ slast'.op = "Validate" =>
          /\ ser' = ser
          /\ slast'.out = NoMap
          /\ (slast'.err = "") <=>
                /\ \A n \in DOMAIN ser : ser[n].Required => n \in DOMAIN slast'.input
                /\ \A k \in DOMAIN slast'.input :
                      k \in DOMAIN ser /\ PassesField(ser[k], slast'.input[k]) ]_vars

\* C17 witness: Validate reported a required field that declares a default
\* as missing, on a non-empty payload whose keys all pass.
C17_Witness ==
    /\ slast.op = "Validate"
    /\ slast.err = "field is required"
    /\ slast.field \in DOMAIN ser
    /\ ser[slast.field].Default # Nil
    /\ DOMAIN slast.input # {}
    /\ \A k \in DOMAIN slast.input :
          k \in DOMAIN ser /\ PassesField(ser[k], slast.input[k])
    /\ \A n \in DOMAIN ser \ {slast.field} : ser[n].Required => n \in DOMAIN slast.input

(***************************************************************************)
(* Properties of the validators, checked under ValSpec.                    *)
(***************************************************************************)
\* Whether min <= v <= max holds for the number a value is, not-a-number
\* being within no range.
WithinRange(min, max, value) ==
    /\ ~value.nan
    /\ ~(IF value.big = min.big THEN value.num < min.num ELSE min.big)
    /\ ~(IF max.big = value.big THEN max.num < value.num ELSE value.big)

\* C18 (as claimed): RangeValidator(min, max) accepts a value exactly when
\* it is a number with min <= v <= max; MinLengthValidator(n) accepts a value
\* exactly when it is a string of at least n characters and
\* MaxLengthValidator(n) exactly when it is a string of at most n characters.
C18_ValidatorsAcceptExactly ==
    /\ vlast.kind = "Range" =>
          ((vlast.err = "") <=>
              /\ vlast.value.type \in NumericTypes
              /\ WithinRange(vlast.min, vlast.max, vlast.value))
    /\ vlast.kind = "MinLength" =>
          ((vlast.err = "") <=>
              (vlast.value.type = "string" /\ vlast.value.chars >= vlast.n))
    /\ vlast.kind = "MaxLength" =>
          ((vlast.err = "") <=>
              (vlast.value.type = "string" /\ vlast.value.chars <= vlast.n))

C20_RegisteredModelIsQueryable ==
    /\ \A t \in DOMAIN hModels :
          /\ QueryFields(t) \subseteq hGQL.query
          /\ MutationFields(t) \subseteq hGQL.mutation
    /\ (/\ glast.op = "ExecuteQuery"
        /\ glast.kind = "query"
        /\ \E t \in DOMAIN hModels : glast.field \in QueryFields(t))
       => ~glast.err

(***************************************************************************)
(* Properties of the statements of the engine, checked under Spec.         *)
(***************************************************************************)
\* C21: in the statement of Create and of Update there is one placeholder
\* per listed column and one argument per placeholder, and the k-th
\* placeholder binds the payload value of the k-th listed column; on
\* postgres the placeholders are $1..$n in order, and in Update the WHERE
\* placeholder is $(m+1) after m SET items and binds id, the last argument;
\* on the other dialects every placeholder is "?".
C21_PlaceholdersMatchArguments ==
    (last.op \in {"Create", "Update"} /\ last.stmts # << >>) =>
        LET stmt == last.stmts[1]
            n    == Len(stmt.cols)
        IN  /\ Len(stmt.ph) = n
            /\ Len(stmt.args) = n + (IF last.op = "Update" THEN 1 ELSE 0)
            /\ \A k \in 1..n :
                  /\ stmt.ph[k] = (IF driver = "postgres" THEN k ELSE 0)
                  /\ Bound(stmt.ph[k], k, stmt.args) = last.data[stmt.cols[k]]
            /\ last.op = "Update" =>
                  /\ stmt.wherePh = (IF driver = "postgres" THEN n + 1 ELSE 0)
                  /\ Bound(stmt.wherePh, n + 1, stmt.args) = last.id
                  /\ stmt.args[n + 1] = last.id
                  /\ last.pk \notin StmtCols(stmt)

\* C21 witness: on postgres an Update whose payload holds the primary-key
\* column and another column sent SET with $1 and WHERE with $2.
C21_Witness ==
    /\ last.op = "Update"
    /\ driver = "postgres"
    /\ last.stmts # << >>
    /\ last.pk \in DOMAIN last.data
    /\ Len(last.stmts[1].cols) = 1
    /\ last.stmts[1].ph = <<1>>
    /\ last.stmts[1].wherePh = 2

\* The tables of the statements a CreateTables call issued, in order.
Issued(call) == [k \in 1..Len(call.stmts) |-> call.stmts[k].table]

\* C22: CreateTables can visit the registry in any order (with a model
\* referencing another registered model, the call that visits the one first
\* and the call that visits the other first are both possible); it issues the DDL of distinct registered models in turn; a
\* call without error leaves every registered model with a table; a call
\* with an error stopped at the failing statement, the tables created before
\* it stay, and the models not visited have a table only if they had one.
C22_CreateTablesOrderAndFailure ==
    [][ /\ (/\ last = Idle
            /\ \E a \in DOMAIN models :
                  ForeignTargets(models[a]) \cap (DOMAIN models \ {a}) # {})
           => \A a \in DOMAIN models :
                 ENABLED (/\ CreateTables
                          /\ Len(last'.stmts) >= 1
                          /\ last'.stmts[1].table = a)
        /\ last'.op = "CreateTables" =>
              LET issued == Issued(last')
                  n      == Len(issued)
                  done   == {issued[k] : k \in 1..(IF last'.err THEN n - 1 ELSE n)}
              IN  /\ \A j, k \in 1..n : issued[j] = issued[k] => j = k
                  /\ \A k \in 1..n : issued[k] \in DOMAIN models
                  /\ DOMAIN tables' = DOMAIN tables \cup done
                  /\ \A t \in DOMAIN tables : tables'[t] = tables[t]
                  /\ ~last'.err => DOMAIN models \subseteq DOMAIN tables'
                  /\ last'.err =>
                        /\ n >= 1
                        /\ issued[n] \notin DOMAIN tables'
                        /\ \A t \in DOMAIN models \ {issued[k] : k \in 1..n} :
                              t \in DOMAIN tables' <=> t \in DOMAIN tables ]_vars

\* C22 witness: with three models registered, CreateTables created one
\* table, then failed on the table whose foreign key references a table not
\* yet created, and returned without visiting the referenced model.
C22_Witness ==
    /\ last.op = "CreateTables"
    /\ last.err
    /\ Len(last.stmts) = 2
    /\ last.stmts[1].table \in DOMAIN tables
    /\ last.stmts[2].table \notin DOMAIN tables
    /\ ForeignTargets(models[last.stmts[2].table]) \cap DOMAIN models # {}
    /\ ForeignTargets(models[last.stmts[2].table]) \cap DOMAIN tables = {}

(***************************************************************************)
(* Further properties of the serializer, checked under SerSpec.            *)
(***************************************************************************)
\* C23: every key of a successful Deserialize result is the source name of a
\* serializer field that is not read-only; a payload key outside the field
\* set is never the reason of an error: Deserialize succeeds whenever the
\* payload's other keys pass and no required field is left without a value.
C23_ResultKeysAreSourceNames ==
    slast.op = "Deserialize" =>
        /\ slast.err = "" =>
              \A k \in DOMAIN slast.out :
                 \E n \in DOMAIN ser : ~ser[n].ReadOnly /\ ser[n].SourceField = k
        /\ slast.err # "" => slast.field \in DOMAIN ser
        /\ (/\ \A n \in DOMAIN slast.input \cap DOMAIN ser :
                  ~ser[n].ReadOnly => PassesField(ser[n], slast.input[n])
            /\ \A r \in DOMAIN ser :
                  ser[r].Required =>
                     \E n \in DOMAIN ser :
                        /\ ~ser[n].ReadOnly
                        /\ ser[n].SourceField = ser[r].SourceField
                        /\ (n \in DOMAIN slast.input \/ ser[n].Default # Nil))
           => slast.err = ""

\* C23 witness: Deserialize succeeded on a payload with a key outside the
\* field set and a key of a renamed field; the result has the source name
\* and neither of the two payload keys.
C23_Witness ==
    /\ slast.op = "Deserialize"
    /\ slast.err = ""
    /\ \E k \in DOMAIN slast.input : k \notin DOMAIN ser /\ k \notin DOMAIN slast.out
    /\ \E n \in DOMAIN slast.input \cap DOMAIN ser :
          /\ ser[n].SourceField # n
          /\ n \notin DOMAIN slast.out
          /\ ser[n].SourceField \in DOMAIN slast.out
          /\ slast.out[ser[n].SourceField] = slast.input[n]

(***************************************************************************)
(* Properties of the router, checked under RouterSpec and GroupSpec.       *)
(***************************************************************************)
\* The routes whose compiled pattern matches the whole path.
PathMatching(path) ==
    {i \in 1..Len(rRoutes) : Len(FindStringSubmatch(rRoutes[i].RegexPattern, path)) > 0}

\* The middleware list stored for route i.
RouteMiddleware(h, rs, i) == Elements(h, rs[i].Middleware)

\* C24: ServeHTTP does exactly one of three things. When some route's
\* pattern matches the whole path and its method is the request's, it
\* takes the first such route in registration order and binds every :param
\* of the pattern to the path segment at the same position. When no such
\* route exists but some route's pattern matches the path, it answers 405
\* with an Allow header that lists the methods of the path-matching routes.
\* Otherwise it answers 404.
C24_ServeHTTPThreeWay ==
    rlast.op = "ServeHTTP" =>
        LET req == rlast.req
            matching == PathMatching(req.Path)
            exact == {i \in matching : rRoutes[i].Method = req.Method}
        IN /\ rlast.outcome \in {"handler", "405", "404"}
           /\ exact # {} =>
                 /\ rlast.outcome = "handler"
                 /\ rlast.route \in exact
                 /\ \A i \in exact : rlast.route <= i
                 /\ LET parts == Split(rRoutes[rlast.route].Pattern)
                        segments == Split(req.Path)
                    IN /\ DOMAIN rlast.params =
                             {Tail(parts[k]) : k \in {k \in 1..Len(parts) : HasPrefix(parts[k])}}
                       /\ \A k \in 1..Len(parts) :
                             HasPrefix(parts[k]) => rlast.params[Tail(parts[k])] = segments[k]
           /\ (exact = {} /\ matching # {}) =>
                 /\ rlast.outcome = "405"
                 /\ rlast.done.status = 405
                 /\ ~rlast.done.handled
                 /\ {rlast.allow[k] : k \in 1..Len(rlast.allow)}
                       = {rRoutes[i].Method : i \in matching}
                 /\ Len(rlast.allow) = Cardinality(matching)
           /\ matching = {} =>
                 /\ rlast.outcome = "404"
                 /\ rlast.done.status = 404
                 /\ ~rlast.done.handled

\* A request was served by the second route, with a path parameter bound,
\* after the first route matched the path with another method.
C24_Witness ==
    /\ rlast.op = "ServeHTTP"
    /\ rlast.outcome = "handler"
    /\ rlast.route = 2
    /\ 1 \in PathMatching(rlast.req.Path)
    /\ DOMAIN rlast.params # {}

C26_GroupRouteMiddlewareFrozen ==
    [][ /\ \A i \in 1..Len(rRoutes) :
              RouteMiddleware(heap', rRoutes', i) = RouteMiddleware(heap, rRoutes, i)
        /\ rlast'.op = "GroupHandle" =>
              RouteMiddleware(heap', rRoutes', Len(rRoutes')) = rlast'.before \o rlast'.own
      ]_vars

(***************************************************************************)
(* More properties of the engine, checked under Spec.                      *)
(***************************************************************************)
\* Some run of the step A issues a first statement whose WHERE column is c.
WhereCan(A, c) == ENABLED (A /\ Len(last'.stmts) >= 1 /\ last'.stmts[1].where = c)

\* C27: the WHERE column of Get, Update and Delete is a field flagged
\* primary key, and it is the same column on every call: from one state,
\* any two runs of the same call put the same column in the WHERE clause,
\* also for a model with more than one primary-key field.
C27_WhereColumnIsDeterministic ==
    [][ /\ (last'.op \in {"Get", "Update", "Delete"} /\ Len(last'.stmts) >= 1) =>
              last'.stmts[1].where \in PrimaryKeys(last'.model.Fields)
        /\ \A t \in TableNames : \A c1, c2 \in PayloadKeys(t) :
              /\ (WhereCan(Get(t, 1), c1) /\ WhereCan(Get(t, 1), c2)) => c1 = c2
              /\ (WhereCan(Delete(t, 1), c1) /\ WhereCan(Delete(t, 1), c2)) => c1 = c2
              /\ (/\ WhereCan(Update(t, 1, NoData) /\ UNCHANGED rtVars, c1)
                  /\ WhereCan(Update(t, 1, NoData) /\ UNCHANGED rtVars, c2)) => c1 = c2
      ]_vars

\* C28: Update never sends an UPDATE statement whose SET clause is empty;
\* with a payload that is empty or holds only primary-key columns it sends
\* no statement.
C28_UpdateNeverSendsEmptySet ==
    last.op = "Update" =>
        /\ \A k \in 1..Len(last.stmts) : last.stmts[k].cols # << >>
        /\ DOMAIN last.data \subseteq PrimaryKeys(last.model.Fields) => last.stmts = << >>

(***************************************************************************)
(* More properties of the serializer, checked under SerSpec.               *)
(***************************************************************************)
\* C29: pre-flight validation is sound for Deserialize. For every
\* serializer and every payload, when Validate(payload) returns no error,
\* Deserialize(payload) returns no error.
C29_ValidateImpliesDeserialize ==
    [][ \A data \in SerPayloads :
           ENABLED (ValidateData(data) /\ slast'.err = "")
              => ~ENABLED (Deserialize(data) /\ slast'.err # "")
      ]_vars

(***************************************************************************)
(* Properties of the controller behind the router, checked under ApiSpec.  *)
(***************************************************************************)
\* The middleware around the handler of the route that served the request,
\* outermost first.
ServedChain == Chain(rMiddleware, RouteMiddleware(heap, rRoutes, rlast.route))

\* The positions of the middleware mw in a chain.
Positions(chain, mw) == {k \in 1..Len(chain) : chain[k] = mw}

\* The ORM write is called only with a body that decoded and that
\* Serializer.Validate accepted; a controller reached with a body that does
\* not decode or does not validate answers 400 and calls no ORM write.
WriteOnlyAfterValidate ==
    /\ last.op \in {"Create", "Update"} =>
          /\ rlast.outcome = "handler"
          /\ rlast.done.handled
          /\ rRoutes[rlast.route].Handler = last.op
          /\ Decoded(rlast.req.Body)
          /\ DefaultValidate(ControllerModel, rlast.req.Body)
          /\ last.data = rlast.req.Body.data
    /\ (/\ rlast.outcome = "handler"
        /\ rlast.done.handled
        /\ rRoutes[rlast.route].Handler \in Controllers
        /\ ~(Decoded(rlast.req.Body) /\ DefaultValidate(ControllerModel, rlast.req.Body)))
       => /\ rlast.done.status = 400
          /\ last = Idle

\* A request without Authorization header was served by a route with Auth
\* among its middleware.
Unauthorized ==
    /\ rlast.outcome = "handler"
    /\ Positions(RouteMiddleware(heap, rRoutes, rlast.route), "Auth") # {}
    /\ ~rlast.req.Authorization

\* C30 (as claimed): Controller.Create and Controller.Update call the ORM
\* write only after Serializer.Validate returned no error for the decoded
\* body; when decoding or validation fails the response is 400 and no ORM
\* write is called; a request without Authorization header on a route
\* guarded by Auth is answered 401 and the controller is not invoked.
C30_WriteOnlyAfterValidateAuth401 ==
    rlast.op = "ServeHTTP" =>
        /\ WriteOnlyAfterValidate
        /\ Unauthorized =>
              /\ rlast.done.status = 401
              /\ ~rlast.done.handled
              /\ last = Idle

\* C30 (amended): as claimed, except that the request without
\* Authorization header is answered 200 by CORS, and not 401, when it is an
\* OPTIONS request and CORS is entered before Auth; the controller is not
\* invoked in either case.
C30_WriteOnlyAfterValidateAuthFirst ==
    rlast.op = "ServeHTTP" =>
        /\ WriteOnlyAfterValidate
        /\ Unauthorized =>
              /\ ~rlast.done.handled
              /\ last = Idle
              /\ rlast.done.status =
                    IF /\ rlast.req.Method = "OPTIONS"
                       /\ \E c \in Positions(ServedChain, "CORS") :
                             \A a \in Positions(ServedChain, "Auth") : c < a
                    THEN 200 ELSE 401

\* A request with Authorization header went through Auth to
\* Controller.Create, whose body validated and whose ORM write stored a row.
C30_Witness ==
    /\ rlast.op = "ServeHTTP"
    /\ rlast.outcome = "handler"
    /\ Positions(ServedChain, "Auth") # {}
    /\ last.op = "Create"
    /\ ~last.err
    /\ rlast.done.status = 201
    /\ rows["users"] # {}

=============================================================================
